---------------------------- MODULE Spec2Model ----------------------------
(***************************************************************************)
(* Model of the slide-deck generator slides/generate_slides.py (and of the *)
(* font loading of the root script generate_slides.py).                    *)
(*                                                                         *)
(* A text is a sequence of characters, each character a one-element        *)
(* string atom ("a", " ", ...); the marker character U+2022 is the atom    *)
(* "u2022".  Lengths of the document are in EMU (pptx.util.Inches), those  *)
(* of the preview in pixels.                                               *)
(***************************************************************************)
EXTENDS Integers, Sequences, FiniteSets, TLC

VARIABLES
    SLIDES,       \* the static list of slide descriptors
    args,         \* the parsed command line (argparse namespace)
    env,          \* the files on disk the run reads, and the paths it cannot write
    pc,           \* position of main
    preview_ids,  \* main: the set of ids to preview
    prs,          \* generate_pptx: the pages added to the Presentation so far
    todo,         \* main: what is left of sorted(preview_ids)
    files,        \* the output files written so far: name -> content
    stdout,       \* the lines printed so far
    call,         \* unit call: the arguments of the helper being called
    result        \* unit call: what the helper returned

vars == <<SLIDES, args, env, pc, preview_ids, prs, todo, files, stdout, call, result>>

mainVars == <<SLIDES, args, env, pc, preview_ids, prs, todo, files, stdout>>

None == "None"

-----------------------------------------------------------------------------
(* Bounds of the model.                                                    *)

MaxLen == 5          \* longest text given to _draw_wrapped_text on its own
MaxWidthSteps == 8   \* max_width ranges over WidthStep .. MaxWidthSteps * WidthStep
WidthStep == 7

-----------------------------------------------------------------------------
(* Strings.                                                                *)

Whitespace == {" ", "\t", "\n"}

BULLET == "u2022"

IsSpace(c) == c \in Whitespace

Rep(c, n) == [k \in 1..n |-> c]

\* The positions where a word starts: a non-whitespace character that is the
\* first of the text or follows whitespace.
WordStarts(text) ==
    {i \in 1..Len(text) : ~IsSpace(text[i]) /\ (i = 1 \/ IsSpace(text[i - 1]))}

\* The last position of the word that starts at i.
WordEnd(text, i) ==
    CHOOSE j \in i..Len(text) :
        /\ \A k \in i..j : ~IsSpace(text[k])
        /\ (j = Len(text) \/ IsSpace(text[j + 1]))

Min(S) == CHOOSE m \in S : \A n \in S : m <= n

Max(S) == CHOOSE m \in S : \A n \in S : n <= m

RECURSIVE SplitFrom(_, _)
SplitFrom(text, starts) ==
    IF starts = {} THEN <<>>
    ELSE LET i == Min(starts)
         IN  <<SubSeq(text, i, WordEnd(text, i))>> \o SplitFrom(text, starts \ {i})

\* str.split(): the maximal runs of non-whitespace characters, in order.
Split(text) == SplitFrom(text, WordStarts(text))

\* str.strip(): without the leading and the trailing whitespace.
Strip(s) ==
    LET solid == {i \in 1..Len(s) : ~IsSpace(s[i])}
    IN  IF solid = {} THEN <<>> ELSE SubSeq(s, Min(solid), Max(solid))

\* str.startswith(prefix) for a one-character prefix
StartsWith(s, c) == s # <<>> /\ Head(s) = c

-----------------------------------------------------------------------------
(* The static texts and slide data of slides/generate_slides.py.           *)

\* "Inspektor Gadget MCP Server  U+2022  https://github.com/inspektor-gadget/ig-mcp-server"
FOOTER_TEXT ==
    <<"I","n","s","p","e","k","t","o","r"," ","G","a","d","g","e","t"," ","M","C","P"," ","S","e",
      "r","v","e","r"," "," ","u2022"," "," ","h","t","t","p","s",":","/","/","g","i","t","h","u",
      "b",".","c","o","m","/","i","n","s","p","e","k","t","o","r","-","g","a","d","g","e","t","/",
      "i","g","-","m","c","p","-","s","e","r","v","e","r">>

\* "Ask and You Shall Debug:"
TitleSlideTitle ==
    <<"A","s","k"," ","a","n","d"," ","Y","o","u"," ","S","h","a","l","l"," ","D","e","b","u","g",
      ":">>

\* "Conversational Troubleshooting for Kubernetes"
TitleSlideSubtitle ==
    <<"C","o","n","v","e","r","s","a","t","i","o","n","a","l"," ","T","r","o","u","b","l","e","s",
      "h","o","o","t","i","n","g"," ","f","o","r"," ","K","u","b","e","r","n","e","t","e","s">>

\* "SCaLE"
TitleSlideTag ==
    <<"S","C","a","L","E">>

\* "Inspektor Gadget"
TitleSlideOrg ==
    <<"I","n","s","p","e","k","t","o","r"," ","G","a","d","g","e","t">>

\* "Ag"
Ag ==
    <<"A","g">>

Slide01 ==
    [id |-> "title",
     layout |-> "title",
     \* "Ask and You Shall Debug:"
     title |->
       <<"A","s","k"," ","a","n","d"," ","Y","o","u"," ","S","h","a","l","l"," ","D","e","b","u","g",
         ":">>,
     \* "Conversational Troubleshooting for Kubernetes"
     subtitle |->
       <<"C","o","n","v","e","r","s","a","t","i","o","n","a","l"," ","T","r","o","u","b","l","e","s",
         "h","o","o","t","i","n","g"," ","f","o","r"," ","K","u","b","e","r","n","e","t","e","s">>,
     meta |-> [right_corner |-> <<<<"S","C","a","L","E">>>>]]

Slide02 ==
    [id |-> "why-and-setup",
     layout |-> "title_and_bullets",
     \* "Why conversational troubleshooting?"
     title |->
       <<"W","h","y"," ","c","o","n","v","e","r","s","a","t","i","o","n","a","l"," ","t","r","o","u",
         "b","l","e","s","h","o","o","t","i","n","g","?">>,
     bullets |-> <<
       \* "Incidents are time-sensitive and cognitively expensive"
       <<"I","n","c","i","d","e","n","t","s"," ","a","r","e"," ","t","i","m","e","-","s","e","n","s",
         "i","t","i","v","e"," ","a","n","d"," ","c","o","g","n","i","t","i","v","e","l","y"," ","e",
         "x","p","e","n","s","i","v","e">>,
       \* "Troubleshooting often requires many tools + exact commands"
       <<"T","r","o","u","b","l","e","s","h","o","o","t","i","n","g"," ","o","f","t","e","n"," ","r",
         "e","q","u","i","r","e","s"," ","m","a","n","y"," ","t","o","o","l","s"," ","+"," ","e","x",
         "a","c","t"," ","c","o","m","m","a","n","d","s">>,
       \* "Goal: make real-time observability accessible via natural language"
       <<"G","o","a","l",":"," ","m","a","k","e"," ","r","e","a","l","-","t","i","m","e"," ","o","b",
         "s","e","r","v","a","b","i","l","i","t","y"," ","a","c","c","e","s","s","i","b","l","e"," ",
         "v","i","a"," ","n","a","t","u","r","a","l"," ","l","a","n","g","u","a","g","e">>,
       \* "We'll follow an on-call story and resolve multiple scenarios"
       <<"W","e","'","l","l"," ","f","o","l","l","o","w"," ","a","n"," ","o","n","-","c","a","l","l",
         " ","s","t","o","r","y"," ","a","n","d"," ","r","e","s","o","l","v","e"," ","m","u","l","t",
         "i","p","l","e"," ","s","c","e","n","a","r","i","o","s">>
     >>]

Slide03 ==
    [id |-> "agenda",
     layout |-> "title_and_bullets",
     \* "Agenda"
     title |->
       <<"A","g","e","n","d","a">>,
     bullets |-> <<
       \* "Demo 1: DNS latency (trace_dns)"
       <<"D","e","m","o"," ","1",":"," ","D","N","S"," ","l","a","t","e","n","c","y"," ","(","t","r",
         "a","c","e","_","d","n","s",")">>,
       \* "Zoom out: Inspektor Gadget + gadgets"
       <<"Z","o","o","m"," ","o","u","t",":"," ","I","n","s","p","e","k","t","o","r"," ","G","a","d",
         "g","e","t"," ","+"," ","g","a","d","g","e","t","s">>,
       \* "Why MCP server (and how it fits)"
       <<"W","h","y"," ","M","C","P"," ","s","e","r","v","e","r"," ","(","a","n","d"," ","h","o","w",
         " ","i","t"," ","f","i","t","s",")">>,
       \* "Mini-demos: disk pressure, CPU saturation, networking misconfig"
       <<"M","i","n","i","-","d","e","m","o","s",":"," ","d","i","s","k"," ","p","r","e","s","s","u",
         "r","e",","," ","C","P","U"," ","s","a","t","u","r","a","t","i","o","n",","," ","n","e","t",
         "w","o","r","k","i","n","g"," ","m","i","s","c","o","n","f","i","g">>,
       \* "Wrap-up + resources"
       <<"W","r","a","p","-","u","p"," ","+"," ","r","e","s","o","u","r","c","e","s">>
     >>]

Slide04 ==
    [id |-> "scenario-1-dns-symptoms",
     layout |-> "title_and_bullets",
     \* "Scenario 1: Slow requests U+2192 DNS latency"
     title |->
       <<"S","c","e","n","a","r","i","o"," ","1",":"," ","S","l","o","w"," ","r","e","q","u","e","s",
         "t","s"," ","u2192"," ","D","N","S"," ","l","a","t","e","n","c","y">>,
     bullets |-> <<
       \* "Symptom: intermittent slowness / timeouts"
       <<"S","y","m","p","t","o","m",":"," ","i","n","t","e","r","m","i","t","t","e","n","t"," ","s",
         "l","o","w","n","e","s","s"," ","/"," ","t","i","m","e","o","u","t","s">>,
       \* "Hypothesis space is large (DNS, network, app, load, etc.)"
       <<"H","y","p","o","t","h","e","s","i","s"," ","s","p","a","c","e"," ","i","s"," ","l","a","r",
         "g","e"," ","(","D","N","S",","," ","n","e","t","w","o","r","k",","," ","a","p","p",","," ",
         "l","o","a","d",","," ","e","t","c",".",")">>,
       \* "We start by validating whether DNS resolution is slow"
       <<"W","e"," ","s","t","a","r","t"," ","b","y"," ","v","a","l","i","d","a","t","i","n","g"," ",
         "w","h","e","t","h","e","r"," ","D","N","S"," ","r","e","s","o","l","u","t","i","o","n"," ",
         "i","s"," ","s","l","o","w">>,
       \* "Tool we'll use: trace_dns"
       <<"T","o","o","l"," ","w","e","'","l","l"," ","u","s","e",":"," ","t","r","a","c","e","_","d",
         "n","s">>
     >>,
     callouts |-> <<
       \* "Key idea: measure, don't guess."
       <<"K","e","y"," ","i","d","e","a",":"," ","m","e","a","s","u","r","e",","," ","d","o","n","'",
         "t"," ","g","u","e","s","s",".">>
     >>]

Slide05 ==
    [id |-> "scenario-1-dns-trace",
     layout |-> "title_and_bullets",
     \* "Using trace_dns to observe DNS in real time"
     title |->
       <<"U","s","i","n","g"," ","t","r","a","c","e","_","d","n","s"," ","t","o"," ","o","b","s","e",
         "r","v","e"," ","D","N","S"," ","i","n"," ","r","e","a","l"," ","t","i","m","e">>,
     bullets |-> <<
       \* "trace_dns traces DNS requests and responses"
       <<"t","r","a","c","e","_","d","n","s"," ","t","r","a","c","e","s"," ","D","N","S"," ","r","e",
         "q","u","e","s","t","s"," ","a","n","d"," ","r","e","s","p","o","n","s","e","s">>,
       \* "It captures request/response pairs and computes latency"
       <<"I","t"," ","c","a","p","t","u","r","e","s"," ","r","e","q","u","e","s","t","/","r","e","s",
         "p","o","n","s","e"," ","p","a","i","r","s"," ","a","n","d"," ","c","o","m","p","u","t","e",
         "s"," ","l","a","t","e","n","c","y">>,
       \* "Use it to identify slow lookups and affected workloads"
       <<"U","s","e"," ","i","t"," ","t","o"," ","i","d","e","n","t","i","f","y"," ","s","l","o","w",
         " ","l","o","o","k","u","p","s"," ","a","n","d"," ","a","f","f","e","c","t","e","d"," ","w",
         "o","r","k","l","o","a","d","s">>,
       \* "Outcome: narrow the problem quickly and objectively"
       <<"O","u","t","c","o","m","e",":"," ","n","a","r","r","o","w"," ","t","h","e"," ","p","r","o",
         "b","l","e","m"," ","q","u","i","c","k","l","y"," ","a","n","d"," ","o","b","j","e","c","t",
         "i","v","e","l","y">>
     >>,
     images |-> <<
       [path |-> "docs/media/placeholder_trace_dns.png",
        \* "trace_dns output / table"
        caption |->
          <<"t","r","a","c","e","_","d","n","s"," ","o","u","t","p","u","t"," ","/"," ","t","a","b","l",
            "e">>,
        optional |-> TRUE]
     >>]

Slide06 ==
    [id |-> "zoom-out-what-is-ig",
     layout |-> "title_and_bullets",
     \* "What is Inspektor Gadget?"
     title |->
       <<"W","h","a","t"," ","i","s"," ","I","n","s","p","e","k","t","o","r"," ","G","a","d","g","e",
         "t","?">>,
     bullets |-> <<
       \* "A systems inspection + data collection framework powered by eBPF"
       <<"A"," ","s","y","s","t","e","m","s"," ","i","n","s","p","e","c","t","i","o","n"," ","+"," ",
         "d","a","t","a"," ","c","o","l","l","e","c","t","i","o","n"," ","f","r","a","m","e","w","o",
         "r","k"," ","p","o","w","e","r","e","d"," ","b","y"," ","e","B","P","F">>,
       \* "Provides observability in Kubernetes and Linux contexts"
       <<"P","r","o","v","i","d","e","s"," ","o","b","s","e","r","v","a","b","i","l","i","t","y"," ",
         "i","n"," ","K","u","b","e","r","n","e","t","e","s"," ","a","n","d"," ","L","i","n","u","x",
         " ","c","o","n","t","e","x","t","s">>,
       \* "Ships a wide selection of U+201CgadgetsU+201D for debugging and monitoring"
       <<"S","h","i","p","s"," ","a"," ","w","i","d","e"," ","s","e","l","e","c","t","i","o","n"," ",
         "o","f"," ","u201C","g","a","d","g","e","t","s","u201D"," ","f","o","r"," ","d","e","b","u",
         "g","g","i","n","g"," ","a","n","d"," ","m","o","n","i","t","o","r","i","n","g">>,
       \* "Designed to make low-level visibility usable in familiar workflows"
       <<"D","e","s","i","g","n","e","d"," ","t","o"," ","m","a","k","e"," ","l","o","w","-","l","e",
         "v","e","l"," ","v","i","s","i","b","i","l","i","t","y"," ","u","s","a","b","l","e"," ","i",
         "n"," ","f","a","m","i","l","i","a","r"," ","w","o","r","k","f","l","o","w","s">>
     >>]

Slide07 ==
    [id |-> "what-is-a-gadget",
     layout |-> "title_and_bullets",
     \* "What is a U+201CgadgetU+201D?"
     title |->
       <<"W","h","a","t"," ","i","s"," ","a"," ","u201C","g","a","d","g","e","t","u201D","?">>,
     bullets |-> <<
       \* "A purpose-built observability tool (trace / snapshot / top / profile)"
       <<"A"," ","p","u","r","p","o","s","e","-","b","u","i","l","t"," ","o","b","s","e","r","v","a",
         "b","i","l","i","t","y"," ","t","o","o","l"," ","(","t","r","a","c","e"," ","/"," ","s","n",
         "a","p","s","h","o","t"," ","/"," ","t","o","p"," ","/"," ","p","r","o","f","i","l","e",")">>,
       \* "Examples we'll use today:"
       <<"E","x","a","m","p","l","e","s"," ","w","e","'","l","l"," ","u","s","e"," ","t","o","d","a",
         "y",":">>,
       \* "U+2022 trace_dns (DNS requests/responses + latency)"
       <<"u2022"," ","t","r","a","c","e","_","d","n","s"," ","(","D","N","S"," ","r","e","q","u","e",
         "s","t","s","/","r","e","s","p","o","n","s","e","s"," ","+"," ","l","a","t","e","n","c","y",
         ")">>,
       \* "U+2022 profile_blockio + top_blockio (disk pressure / block I/O)"
       <<"u2022"," ","p","r","o","f","i","l","e","_","b","l","o","c","k","i","o"," ","+"," ","t","o",
         "p","_","b","l","o","c","k","i","o"," ","(","d","i","s","k"," ","p","r","e","s","s","u","r",
         "e"," ","/"," ","b","l","o","c","k"," ","I","/","O",")">>,
       \* "U+2022 top_process (CPU-heavy processes)"
       <<"u2022"," ","t","o","p","_","p","r","o","c","e","s","s"," ","(","C","P","U","-","h","e","a",
         "v","y"," ","p","r","o","c","e","s","s","e","s",")">>,
       \* "U+2022 tcpdump (packet capture with filters in container context)"
       <<"u2022"," ","t","c","p","d","u","m","p"," ","(","p","a","c","k","e","t"," ","c","a","p","t",
         "u","r","e"," ","w","i","t","h"," ","f","i","l","t","e","r","s"," ","i","n"," ","c","o","n",
         "t","a","i","n","e","r"," ","c","o","n","t","e","x","t",")">>
     >>]

Slide08 ==
    [id |-> "why-mcp",
     layout |-> "title_and_bullets",
     \* "Problem: many gadgets U+2192 hard to choose"
     title |->
       <<"P","r","o","b","l","e","m",":"," ","m","a","n","y"," ","g","a","d","g","e","t","s"," ",
         "u2192"," ","h","a","r","d"," ","t","o"," ","c","h","o","o","s","e">>,
     bullets |-> <<
       \* "Inspektor Gadget has a large library of powerful gadgets"
       <<"I","n","s","p","e","k","t","o","r"," ","G","a","d","g","e","t"," ","h","a","s"," ","a"," ",
         "l","a","r","g","e"," ","l","i","b","r","a","r","y"," ","o","f"," ","p","o","w","e","r","f",
         "u","l"," ","g","a","d","g","e","t","s">>,
       \* "In an incident, picking the *right* gadget quickly is the hard part"
       <<"I","n"," ","a","n"," ","i","n","c","i","d","e","n","t",","," ","p","i","c","k","i","n","g",
         " ","t","h","e"," ","*","r","i","g","h","t","*"," ","g","a","d","g","e","t"," ","q","u","i",
         "c","k","l","y"," ","i","s"," ","t","h","e"," ","h","a","r","d"," ","p","a","r","t">>,
       \* "Teams end up memorizing commands, or reaching for familiar tools first"
       <<"T","e","a","m","s"," ","e","n","d"," ","u","p"," ","m","e","m","o","r","i","z","i","n","g",
         " ","c","o","m","m","a","n","d","s",","," ","o","r"," ","r","e","a","c","h","i","n","g"," ",
         "f","o","r"," ","f","a","m","i","l","i","a","r"," ","t","o","o","l","s"," ","f","i","r","s",
         "t">>,
       \* "We wanted: U+201Cdescribe the symptom U+2192 get the right tool + next stepU+201D"
       <<"W","e"," ","w","a","n","t","e","d",":"," ","u201C","d","e","s","c","r","i","b","e"," ","t",
         "h","e"," ","s","y","m","p","t","o","m"," ","u2192"," ","g","e","t"," ","t","h","e"," ","r",
         "i","g","h","t"," ","t","o","o","l"," ","+"," ","n","e","x","t"," ","s","t","e","p","u201D">>
     >>,
     callouts |-> <<
       \* "This is where we discovered MCP."
       <<"T","h","i","s"," ","i","s"," ","w","h","e","r","e"," ","w","e"," ","d","i","s","c","o","v",
         "e","r","e","d"," ","M","C","P",".">>
     >>]

Slide09 ==
    [id |-> "what-is-mcp",
     layout |-> "title_and_bullets",
     \* "What is MCP (Model Context Protocol)?"
     title |->
       <<"W","h","a","t"," ","i","s"," ","M","C","P"," ","(","M","o","d","e","l"," ","C","o","n","t",
         "e","x","t"," ","P","r","o","t","o","c","o","l",")","?">>,
     bullets |-> <<
       \* "A standard way for an LLM to call external tools in a structured, safe way"
       <<"A"," ","s","t","a","n","d","a","r","d"," ","w","a","y"," ","f","o","r"," ","a","n"," ","L",
         "L","M"," ","t","o"," ","c","a","l","l"," ","e","x","t","e","r","n","a","l"," ","t","o","o",
         "l","s"," ","i","n"," ","a"," ","s","t","r","u","c","t","u","r","e","d",","," ","s","a","f",
         "e"," ","w","a","y">>,
       \* "Tools are exposed with names + schemas (inputs/outputs are predictable)"
       <<"T","o","o","l","s"," ","a","r","e"," ","e","x","p","o","s","e","d"," ","w","i","t","h"," ",
         "n","a","m","e","s"," ","+"," ","s","c","h","e","m","a","s"," ","(","i","n","p","u","t","s",
         "/","o","u","t","p","u","t","s"," ","a","r","e"," ","p","r","e","d","i","c","t","a","b","l",
         "e",")">>,
       \* "Lets the model choose actions (run tools) and then explain results"
       <<"L","e","t","s"," ","t","h","e"," ","m","o","d","e","l"," ","c","h","o","o","s","e"," ","a",
         "c","t","i","o","n","s"," ","(","r","u","n"," ","t","o","o","l","s",")"," ","a","n","d"," ",
         "t","h","e","n"," ","e","x","p","l","a","i","n"," ","r","e","s","u","l","t","s">>,
       \* "In our case: the tools are Inspektor Gadget gadgets via ig-mcp-server"
       <<"I","n"," ","o","u","r"," ","c","a","s","e",":"," ","t","h","e"," ","t","o","o","l","s"," ",
         "a","r","e"," ","I","n","s","p","e","k","t","o","r"," ","G","a","d","g","e","t"," ","g","a",
         "d","g","e","t","s"," ","v","i","a"," ","i","g","-","m","c","p","-","s","e","r","v","e","r">>
     >>,
     callouts |-> <<
       \* "MCP turns U+201CchatU+201D into U+201Cchat + actionsU+201D (tool calls)."
       <<"M","C","P"," ","t","u","r","n","s"," ","u201C","c","h","a","t","u201D"," ","i","n","t","o",
         " ","u201C","c","h","a","t"," ","+"," ","a","c","t","i","o","n","s","u201D"," ","(","t","o",
         "o","l"," ","c","a","l","l","s",")",".">>
     >>]

Slide10 ==
    [id |-> "architecture-high-level",
     layout |-> "title_and_bullets",
     \* "High-level architecture"
     title |->
       <<"H","i","g","h","-","l","e","v","e","l"," ","a","r","c","h","i","t","e","c","t","u","r","e">>,
     bullets |-> <<
       \* "Copilot/LLM U+2194 MCP protocol U+2194 ig-mcp-server U+2194 Inspektor Gadget gadgets"
       <<"C","o","p","i","l","o","t","/","L","L","M"," ","u2194"," ","M","C","P"," ","p","r","o","t",
         "o","c","o","l"," ","u2194"," ","i","g","-","m","c","p","-","s","e","r","v","e","r"," ",
         "u2194"," ","I","n","s","p","e","k","t","o","r"," ","G","a","d","g","e","t"," ","g","a","d",
         "g","e","t","s">>,
       \* "Gadgets provide real-time signals; LLM turns signals into next steps"
       <<"G","a","d","g","e","t","s"," ","p","r","o","v","i","d","e"," ","r","e","a","l","-","t","i",
         "m","e"," ","s","i","g","n","a","l","s",";"," ","L","L","M"," ","t","u","r","n","s"," ","s",
         "i","g","n","a","l","s"," ","i","n","t","o"," ","n","e","x","t"," ","s","t","e","p","s">>,
       \* "MCP server transports: stdio / sse / streamable-http"
       <<"M","C","P"," ","s","e","r","v","e","r"," ","t","r","a","n","s","p","o","r","t","s",":"," ",
         "s","t","d","i","o"," ","/"," ","s","s","e"," ","/"," ","s","t","r","e","a","m","a","b","l",
         "e","-","h","t","t","p">>,
       \* "Gadget discovery: Artifact Hub or explicit gadget images"
       <<"G","a","d","g","e","t"," ","d","i","s","c","o","v","e","r","y",":"," ","A","r","t","i","f",
         "a","c","t"," ","H","u","b"," ","o","r"," ","e","x","p","l","i","c","i","t"," ","g","a","d",
         "g","e","t"," ","i","m","a","g","e","s">>
     >>,
     images |-> <<
       [path |-> "docs/media/placeholder_architecture.png",
        \* "LLM U+2192 MCP U+2192 IG MCP server U+2192 IG gadgets"
        caption |->
          <<"L","L","M"," ","u2192"," ","M","C","P"," ","u2192"," ","I","G"," ","M","C","P"," ","s","e",
            "r","v","e","r"," ","u2192"," ","I","G"," ","g","a","d","g","e","t","s">>,
        optional |-> TRUE]
     >>]

Slide11 ==
    [id |-> "human-vs-ai",
     layout |-> "title_and_bullets",
     \* "Human vs. AI troubleshooting"
     title |->
       <<"H","u","m","a","n"," ","v","s","."," ","A","I"," ","t","r","o","u","b","l","e","s","h","o",
         "o","t","i","n","g">>,
     bullets |-> <<
       \* "Humans: hypothesis-driven, sequential, bias-prone under pressure"
       <<"H","u","m","a","n","s",":"," ","h","y","p","o","t","h","e","s","i","s","-","d","r","i","v",
         "e","n",","," ","s","e","q","u","e","n","t","i","a","l",","," ","b","i","a","s","-","p","r",
         "o","n","e"," ","u","n","d","e","r"," ","p","r","e","s","s","u","r","e">>,
       \* "LLM + real-time tools: broader search, more consistent method"
       <<"L","L","M"," ","+"," ","r","e","a","l","-","t","i","m","e"," ","t","o","o","l","s",":"," ",
         "b","r","o","a","d","e","r"," ","s","e","a","r","c","h",","," ","m","o","r","e"," ","c","o",
         "n","s","i","s","t","e","n","t"," ","m","e","t","h","o","d">>,
       \* "Best results come from collaboration (human judgment + machine speed)"
       <<"B","e","s","t"," ","r","e","s","u","l","t","s"," ","c","o","m","e"," ","f","r","o","m"," ",
         "c","o","l","l","a","b","o","r","a","t","i","o","n"," ","(","h","u","m","a","n"," ","j","u",
         "d","g","m","e","n","t"," ","+"," ","m","a","c","h","i","n","e"," ","s","p","e","e","d",")">>,
       \* "Guardrail: confirm findings with observable evidence"
       <<"G","u","a","r","d","r","a","i","l",":"," ","c","o","n","f","i","r","m"," ","f","i","n","d",
         "i","n","g","s"," ","w","i","t","h"," ","o","b","s","e","r","v","a","b","l","e"," ","e","v",
         "i","d","e","n","c","e">>
     >>]

Slide12 ==
    [id |-> "scenario-2-disk-pressure",
     layout |-> "title_and_bullets",
     \* "Scenario 2: Disk pressure"
     title |->
       <<"S","c","e","n","a","r","i","o"," ","2",":"," ","D","i","s","k"," ","p","r","e","s","s","u",
         "r","e">>,
     bullets |-> <<
       \* "Symptom: disk pressure alerts, slow writes, cascading failures"
       <<"S","y","m","p","t","o","m",":"," ","d","i","s","k"," ","p","r","e","s","s","u","r","e"," ",
         "a","l","e","r","t","s",","," ","s","l","o","w"," ","w","r","i","t","e","s",","," ","c","a",
         "s","c","a","d","i","n","g"," ","f","a","i","l","u","r","e","s">>,
       \* "Identify which workloads drive I/O and what patterns are present"
       <<"I","d","e","n","t","i","f","y"," ","w","h","i","c","h"," ","w","o","r","k","l","o","a","d",
         "s"," ","d","r","i","v","e"," ","I","/","O"," ","a","n","d"," ","w","h","a","t"," ","p","a",
         "t","t","e","r","n","s"," ","a","r","e"," ","p","r","e","s","e","n","t">>,
       \* "Gadgets:"
       <<"G","a","d","g","e","t","s",":">>,
       \* "U+2022 profile_blockio (profiling block I/O behavior)"
       <<"u2022"," ","p","r","o","f","i","l","e","_","b","l","o","c","k","i","o"," ","(","p","r","o",
         "f","i","l","i","n","g"," ","b","l","o","c","k"," ","I","/","O"," ","b","e","h","a","v","i",
         "o","r",")">>,
       \* "U+2022 top_blockio (top block I/O contributors)"
       <<"u2022"," ","t","o","p","_","b","l","o","c","k","i","o"," ","(","t","o","p"," ","b","l","o",
         "c","k"," ","I","/","O"," ","c","o","n","t","r","i","b","u","t","o","r","s",")">>
     >>,
     images |-> <<
       [path |-> "docs/media/placeholder_blockio.png",
        \* "profile_blockio / top_blockio output"
        caption |->
          <<"p","r","o","f","i","l","e","_","b","l","o","c","k","i","o"," ","/"," ","t","o","p","_","b",
            "l","o","c","k","i","o"," ","o","u","t","p","u","t">>,
        optional |-> TRUE]
     >>]

Slide13 ==
    [id |-> "scenario-3-cpu",
     layout |-> "title_and_bullets",
     \* "Scenario 3: CPU saturation"
     title |->
       <<"S","c","e","n","a","r","i","o"," ","3",":"," ","C","P","U"," ","s","a","t","u","r","a","t",
         "i","o","n">>,
     bullets |-> <<
       \* "Symptom: high latency + throttling + noisy neighbor suspicion"
       <<"S","y","m","p","t","o","m",":"," ","h","i","g","h"," ","l","a","t","e","n","c","y"," ","+",
         " ","t","h","r","o","t","t","l","i","n","g"," ","+"," ","n","o","i","s","y"," ","n","e","i",
         "g","h","b","o","r"," ","s","u","s","p","i","c","i","o","n">>,
       \* "Goal: identify CPU-heavy processes in the relevant workload context"
       <<"G","o","a","l",":"," ","i","d","e","n","t","i","f","y"," ","C","P","U","-","h","e","a","v",
         "y"," ","p","r","o","c","e","s","s","e","s"," ","i","n"," ","t","h","e"," ","r","e","l","e",
         "v","a","n","t"," ","w","o","r","k","l","o","a","d"," ","c","o","n","t","e","x","t">>,
       \* "Gadget: top_process"
       <<"G","a","d","g","e","t",":"," ","t","o","p","_","p","r","o","c","e","s","s">>,
       \* "Optional deeper profiling exists: profile_cpu"
       <<"O","p","t","i","o","n","a","l"," ","d","e","e","p","e","r"," ","p","r","o","f","i","l","i",
         "n","g"," ","e","x","i","s","t","s",":"," ","p","r","o","f","i","l","e","_","c","p","u">>
     >>]

Slide14 ==
    [id |-> "scenario-4-networking",
     layout |-> "title_and_bullets",
     \* "Scenario 4: Networking config/port mismatch"
     title |->
       <<"S","c","e","n","a","r","i","o"," ","4",":"," ","N","e","t","w","o","r","k","i","n","g"," ",
         "c","o","n","f","i","g","/","p","o","r","t"," ","m","i","s","m","a","t","c","h">>,
     bullets |-> <<
       \* "Symptom: app canU+2019t connect / sporadic failures"
       <<"S","y","m","p","t","o","m",":"," ","a","p","p"," ","c","a","n","u2019","t"," ","c","o","n",
         "n","e","c","t"," ","/"," ","s","p","o","r","a","d","i","c"," ","f","a","i","l","u","r","e",
         "s">>,
       \* "Validate assumptions by observing real packets"
       <<"V","a","l","i","d","a","t","e"," ","a","s","s","u","m","p","t","i","o","n","s"," ","b","y",
         " ","o","b","s","e","r","v","i","n","g"," ","r","e","a","l"," ","p","a","c","k","e","t","s">>,
       \* "Gadget: tcpdump (packet capture with pcap-compatible filters)"
       <<"G","a","d","g","e","t",":"," ","t","c","p","d","u","m","p"," ","(","p","a","c","k","e","t",
         " ","c","a","p","t","u","r","e"," ","w","i","t","h"," ","p","c","a","p","-","c","o","m","p",
         "a","t","i","b","l","e"," ","f","i","l","t","e","r","s",")">>,
       \* "Outcome: confirm mismatch between expected vs actual traffic patterns"
       <<"O","u","t","c","o","m","e",":"," ","c","o","n","f","i","r","m"," ","m","i","s","m","a","t",
         "c","h"," ","b","e","t","w","e","e","n"," ","e","x","p","e","c","t","e","d"," ","v","s"," ",
         "a","c","t","u","a","l"," ","t","r","a","f","f","i","c"," ","p","a","t","t","e","r","n","s">>
     >>,
     images |-> <<
       [path |-> "docs/media/placeholder_tcpdump.png",
        \* "tcpdump gadget output"
        caption |->
          <<"t","c","p","d","u","m","p"," ","g","a","d","g","e","t"," ","o","u","t","p","u","t">>,
        optional |-> TRUE]
     >>]

Slide15 ==
    [id |-> "operations-safety",
     layout |-> "title_and_bullets",
     \* "Operations & safety"
     title |->
       <<"O","p","e","r","a","t","i","o","n","s"," ","&"," ","s","a","f","e","t","y">>,
     bullets |-> <<
       \* "Run MCP server in read-only mode when appropriate"
       <<"R","u","n"," ","M","C","P"," ","s","e","r","v","e","r"," ","i","n"," ","r","e","a","d","-",
         "o","n","l","y"," ","m","o","d","e"," ","w","h","e","n"," ","a","p","p","r","o","p","r","i",
         "a","t","e">>,
       \* "Use restricted permissions via dedicated service account"
       <<"U","s","e"," ","r","e","s","t","r","i","c","t","e","d"," ","p","e","r","m","i","s","s","i",
         "o","n","s"," ","v","i","a"," ","d","e","d","i","c","a","t","e","d"," ","s","e","r","v","i",
         "c","e"," ","a","c","c","o","u","n","t">>,
       \* "Reduce scope to avoid overload (namespace, limits, timeouts)"
       <<"R","e","d","u","c","e"," ","s","c","o","p","e"," ","t","o"," ","a","v","o","i","d"," ","o",
         "v","e","r","l","o","a","d"," ","(","n","a","m","e","s","p","a","c","e",","," ","l","i","m",
         "i","t","s",","," ","t","i","m","e","o","u","t","s",")">>,
       \* "Treat AI recommendations as hypotheses until validated"
       <<"T","r","e","a","t"," ","A","I"," ","r","e","c","o","m","m","e","n","d","a","t","i","o","n",
         "s"," ","a","s"," ","h","y","p","o","t","h","e","s","e","s"," ","u","n","t","i","l"," ","v",
         "a","l","i","d","a","t","e","d">>
     >>]

Slide16 ==
    [id |-> "wrap-up",
     layout |-> "title_and_bullets",
     \* "Wrap-up"
     title |->
       <<"W","r","a","p","-","u","p">>,
     bullets |-> <<
       \* "Inspektor Gadget: real-time observability powered by eBPF"
       <<"I","n","s","p","e","k","t","o","r"," ","G","a","d","g","e","t",":"," ","r","e","a","l","-",
         "t","i","m","e"," ","o","b","s","e","r","v","a","b","i","l","i","t","y"," ","p","o","w","e",
         "r","e","d"," ","b","y"," ","e","B","P","F">>,
       \* "MCP server: makes gadgets accessible through an AI interface"
       <<"M","C","P"," ","s","e","r","v","e","r",":"," ","m","a","k","e","s"," ","g","a","d","g","e",
         "t","s"," ","a","c","c","e","s","s","i","b","l","e"," ","t","h","r","o","u","g","h"," ","a",
         "n"," ","A","I"," ","i","n","t","e","r","f","a","c","e">>,
       \* "Scenarios: DNS latency, disk pressure, CPU saturation, networking"
       <<"S","c","e","n","a","r","i","o","s",":"," ","D","N","S"," ","l","a","t","e","n","c","y",",",
         " ","d","i","s","k"," ","p","r","e","s","s","u","r","e",","," ","C","P","U"," ","s","a","t",
         "u","r","a","t","i","o","n",","," ","n","e","t","w","o","r","k","i","n","g">>,
       \* "Resources:"
       <<"R","e","s","o","u","r","c","e","s",":">>,
       \* "U+2022 IG MCP Server: https://github.com/inspektor-gadget/ig-mcp-server"
       <<"u2022"," ","I","G"," ","M","C","P"," ","S","e","r","v","e","r",":"," ","h","t","t","p","s",
         ":","/","/","g","i","t","h","u","b",".","c","o","m","/","i","n","s","p","e","k","t","o","r",
         "-","g","a","d","g","e","t","/","i","g","-","m","c","p","-","s","e","r","v","e","r">>,
       \* "U+2022 Inspektor Gadget: https://github.com/inspektor-gadget/inspektor-gadget"
       <<"u2022"," ","I","n","s","p","e","k","t","o","r"," ","G","a","d","g","e","t",":"," ","h","t",
         "t","p","s",":","/","/","g","i","t","h","u","b",".","c","o","m","/","i","n","s","p","e","k",
         "t","o","r","-","g","a","d","g","e","t","/","i","n","s","p","e","k","t","o","r","-","g","a",
         "d","g","e","t">>,
       \* "U+2022 Website: https://www.inspektor-gadget.io/"
       <<"u2022"," ","W","e","b","s","i","t","e",":"," ","h","t","t","p","s",":","/","/","w","w","w",
         ".","i","n","s","p","e","k","t","o","r","-","g","a","d","g","e","t",".","i","o","/">>
     >>]

\* SLIDES of slides/generate_slides.py
StaticSLIDES ==
    <<Slide01, Slide02, Slide03, Slide04, Slide05, Slide06,
      Slide07, Slide08, Slide09, Slide10, Slide11, Slide12,
      Slide13, Slide14, Slide15, Slide16>>

\* ids in the order of sorted(): by code point
SortedIds ==
    <<"agenda",
      "architecture-high-level",
      "demo",
      "human-vs-ai",
      "next",
      "no-such-slide",
      "operations-safety",
      "scenario-1-dns-symptoms",
      "scenario-1-dns-trace",
      "scenario-2-disk-pressure",
      "scenario-3-cpu",
      "scenario-4-networking",
      "title",
      "what-is-a-gadget",
      "what-is-mcp",
      "why-and-setup",
      "why-mcp",
      "wrap-up",
      "zoom-out-what-is-ig",
      "zzz-unknown">>

-----------------------------------------------------------------------------
(* Fonts and text metrics (PIL).                                           *)

\* ImageFont.truetype(path, size)
TrueType(path, size) == [kind |-> "truetype", path |-> path, size |-> size]

\* ImageFont.load_default(): one built-in font, whatever size was asked for.
load_default == [kind |-> "default", path |-> "", size |-> 10]

NarrowGlyphs == {" ", "\t", "\n", "i", "l", "j", "t", "f", ".", ",", ":", ";", "'", "!", "|", "/", "(", ")", "*"}

\* Advance width of one glyph: a quarter em for a narrow glyph, half an em
\* otherwise; the built-in font is fixed-pitch.
GlyphAdvance(font, c) ==
    IF font.kind = "default" THEN 6
    ELSE IF c \in NarrowGlyphs THEN font.size \div 4 ELSE font.size \div 2

\* The advance widths of s[lo..hi], summed.
RECURSIVE SumAdvance(_, _, _, _)
SumAdvance(font, s, lo, hi) ==
    IF lo > hi THEN 0
    ELSE IF lo = hi THEN GlyphAdvance(font, s[lo])
    ELSE LET mid == (lo + hi) \div 2
         IN  SumAdvance(font, s, lo, mid) + SumAdvance(font, s, mid + 1, hi)

\* bbox = draw.textbbox((0, 0), s, font=font); bbox[2] - bbox[0]
TextWidth(font, s) == SumAdvance(font, s, 1, Len(s))

\* draw.textbbox((0, 0), "Ag", font=font)[3]
TextBottom(font) == font.size

-----------------------------------------------------------------------------
(* _draw_wrapped_text                                                      *)

\* One iteration of the word loop: the new (current, lines).
WrapWordNoFlush(current, lines, word, font, max_width) ==
    LET test == Strip(current \o <<" ">> \o word)
    IN  IF TextWidth(font, test) <= max_width
        THEN [current |-> test, lines |-> lines]
        ELSE [current |-> word, lines |-> lines]

\* Faulty variant: every word starts a new line
WrapWordOnePerLine(current, lines, word, font, max_width) ==
    [current |-> word,
     lines |-> IF current # <<>> THEN Append(lines, current) ELSE lines]

WrapWord(current, lines, word, font, max_width) ==
    LET test == Strip(current \o <<" ">> \o word)
    IN  IF TextWidth(font, test) <= max_width
        THEN [current |-> test, lines |-> lines]
        ELSE [current |-> word,
              lines |-> IF current # <<>> THEN Append(lines, current) ELSE lines]

RECURSIVE WrapLoop(_, _, _, _, _, _)
WrapLoop(words, i, current, lines, font, max_width) ==
    IF i > Len(words)
    THEN IF current # <<>> THEN Append(lines, current) ELSE lines
    ELSE LET s == WrapWord(current, lines, words[i], font, max_width)
         IN  WrapLoop(words, i + 1, s.current, s.lines, font, max_width)

\* The lines list built by _draw_wrapped_text.
WrapLines(text, font, max_width) == WrapLoop(Split(text), 1, <<>>, <<>>, font, max_width)

\* lh = line_height or (draw.textbbox((0, 0), "Ag", font=font)[3] + 4); a
\* line_height of None is passed as 0 here: "or" treats the two alike.
LineHeight(line_height, font) ==
    IF line_height = 0 THEN TextBottom(font) + 4 ELSE line_height

\* draw.text((x, y), text, font=font, fill=fill)
DrawText(x, y, text, font, fill) ==
    [op |-> "text", x |-> x, y |-> y, text |-> text, font |-> font, fill |-> fill]

\* Faulty variant: returns the y of the last line drawn, not the y below it
DrawWrappedTextLastLineY(text, font, x, y, max_width, fill, line_height) ==
    LET lines == WrapLines(text, font, max_width)
        lh == LineHeight(line_height, font)
    IN  [drawn |-> [k \in 1..Len(lines) |->
                      DrawText(x, y + (k - 1) * lh, lines[k], font, fill)],
         y |-> y + Max({0, Len(lines) - 1}) * lh]

\* Returns [drawn: the draw.text calls made, in order, y: the final y position].
_draw_wrapped_text(text, font, x, y, max_width, fill, line_height) ==
    LET lines == WrapLines(text, font, max_width)
        lh == LineHeight(line_height, font)
    IN  [drawn |-> [k \in 1..Len(lines) |->
                      DrawText(x, y + (k - 1) * lh, lines[k], font, fill)],
         y |-> y + Len(lines) * lh]

-----------------------------------------------------------------------------
(* Font loading.  env.fonts[path] is "absent" (os.path.exists is false),   *)
(* "ok" (the file exists and ImageFont.truetype loads it) or "bad" (the    *)
(* file exists and ImageFont.truetype raises OSError).                     *)

FontCandidates ==
    << "/usr/share/fonts/truetype/msttcorefonts/Calibri.ttf",
       "/usr/share/fonts/truetype/liberation/LiberationSans-Regular.ttf",
       "/usr/share/fonts/truetype/dejavu/DejaVuSans.ttf",
       "/usr/share/fonts/truetype/freefont/FreeSans.ttf",
       "/Library/Fonts/Calibri.ttf",
       "/System/Library/Fonts/Helvetica.ttc",
       "C:/Windows/Fonts/calibri.ttf",
       "C:/Windows/Fonts/arial.ttf" >>

BoldFontCandidates ==
    << "/usr/share/fonts/truetype/msttcorefonts/Calibrib.ttf",
       "/usr/share/fonts/truetype/liberation/LiberationSans-Bold.ttf",
       "/usr/share/fonts/truetype/dejavu/DejaVuSans-Bold.ttf",
       "/usr/share/fonts/truetype/freefont/FreeSansBold.ttf",
       "/Library/Fonts/CalibriBold.ttf",
       "/System/Library/Fonts/Helvetica.ttc",
       "C:/Windows/Fonts/calibrib.ttf",
       "C:/Windows/Fonts/arialbd.ttf" >>

Range(f) == {f[k] : k \in DOMAIN f}

FontPaths == Range(FontCandidates) \cup Range(BoldFontCandidates)

\* Faulty variant: gives up at the first candidate that exists and fails to load
RECURSIVE LoadFromGivesUp(_, _, _)
LoadFromGivesUp(candidates, i, size) ==
    IF i > Len(candidates) THEN load_default
    ELSE IF env.fonts[candidates[i]] = "ok" THEN TrueType(candidates[i], size)
    ELSE IF env.fonts[candidates[i]] = "bad" THEN load_default
    ELSE LoadFromGivesUp(candidates, i + 1, size)

\* The loop "for path in candidates" from candidate i on.
RECURSIVE LoadFrom(_, _, _)
LoadFrom(candidates, i, size) ==
    IF i > Len(candidates) THEN load_default
    ELSE IF env.fonts[candidates[i]] = "ok" THEN TrueType(candidates[i], size)
    ELSE LoadFrom(candidates, i + 1, size)

_load_font(size) == LoadFrom(FontCandidates, 1, size)

_load_font_bold(size) == LoadFrom(BoldFontCandidates, 1, size)

\* The font loading of generate_preview in the root script: one try block
\* around four ImageFont.truetype calls on two files; any exception gives the
\* built-in font for all four.
RootPreviewFonts(is_title_slide) ==
    LET bold == "/usr/share/fonts/truetype/dejavu/DejaVuSans-Bold.ttf"
        sans == "/usr/share/fonts/truetype/dejavu/DejaVuSans.ttf"
    IN  IF env.fonts[bold] = "ok" /\ env.fonts[sans] = "ok"
        THEN [font_title |-> TrueType(bold, IF is_title_slide THEN 52 ELSE 42),
              font_subtitle |-> TrueType(sans, 30),
              font_body |-> TrueType(sans, 22),
              font_footer |-> TrueType(sans, 13)]
        ELSE [font_title |-> load_default, font_subtitle |-> load_default,
              font_body |-> load_default, font_footer |-> load_default]

-----------------------------------------------------------------------------
(* Constants of slides/generate_slides.py.                                 *)

PRIMARY == <<17, 24, 39>>
ACCENT == <<37, 99, 235>>
WHITE == <<255, 255, 255>>
LIGHT_GRAY == <<243, 244, 246>>
C_MID_GRAY == <<156, 163, 175>>

TITLE_PT == 40
BODY_PT == 24
FOOTER_PT == 12
CALLOUT_PT == 18

\* pptx.util.Inches(x) == int(x * 914400); the argument here is in
\* thousandths of an inch, so Inches(1750) is Inches(1.75), which is
\* int(1750 * 914.4).
Inches(milli) == (milli * 9144) \div 10

SLIDE_W == Inches(13330)
SLIDE_H == Inches(7500)

PX_W == 1280
PX_H == 720

\* dict.get(key, default)
Get(d, key, default) == IF key \in DOMAIN d THEN d[key] ELSE default

\* Which block of the builder emitted a primitive: an annotation of the model,
\* <<"bullet", i>> for the i-th bullet (from 1), <<"callout", j>>, ...
Tag(role, prim) == [role |-> role, prim |-> prim]

TagAll(role, prims) == [k \in DOMAIN prims |-> Tag(role, prims[k])]

RECURSIVE Flatten(_)
Flatten(seqs) == IF seqs = <<>> THEN <<>> ELSE Head(seqs) \o Flatten(Tail(seqs))

-----------------------------------------------------------------------------
(* The document path (python-pptx).  A page is [background, shapes]; each  *)
(* shape is tagged with the block that added it.                           *)

\* slide.shapes.add_textbox(left, top, width, height) with one run of text
_add_text_box(left, top, width, height, text, size_pt, bold, color, align, italic) ==
    [shape |-> "textbox", left |-> left, top |-> top, width |-> width, height |-> height,
     text |-> text, size_pt |-> size_pt, bold |-> bold, italic |-> italic,
     color |-> color, align |-> align, word_wrap |-> TRUE]

\* slide.shapes.add_shape(1, left, top, width, height), filled
_add_rect(left, top, width, height, fill_rgb) ==
    [shape |-> "rect", left |-> left, top |-> top, width |-> width, height |-> height,
     fill |-> fill_rgb]

\* slide.shapes.add_picture(path, left, top, width, height)
add_picture(path, left, top, width, height) ==
    [shape |-> "picture", left |-> left, top |-> top, width |-> width, height |-> height,
     path |-> path]

_add_footer ==
    _add_text_box(Inches(250), SLIDE_H - Inches(450), SLIDE_W - Inches(500), Inches(350),
                  FOOTER_TEXT, FOOTER_PT, FALSE, C_MID_GRAY, "CENTER", FALSE)

_add_accent_bar ==
    _add_rect(Inches(500), Inches(1550), SLIDE_W - Inches(1000), Inches(40), ACCENT)

_build_title_slide ==
    [background |-> PRIMARY,
     shapes |-> <<
        Tag(<<"accent">>, _add_rect(Inches(0), Inches(0), Inches(120), SLIDE_H, ACCENT)),
        Tag(<<"title">>,
            _add_text_box(Inches(600), Inches(1800), Inches(10000), Inches(1500),
                          TitleSlideTitle, TITLE_PT + 8, TRUE, WHITE, "LEFT", FALSE)),
        Tag(<<"subtitle">>,
            _add_text_box(Inches(600), Inches(3350), Inches(10000), Inches(1000),
                          TitleSlideSubtitle, TITLE_PT - 6, FALSE, <<147, 197, 253>>,
                          "LEFT", FALSE)),
        Tag(<<"tag">>,
            _add_text_box(Inches(600), Inches(4500), Inches(4000), Inches(500),
                          TitleSlideTag, BODY_PT, FALSE, <<156, 163, 175>>, "LEFT", FALSE)),
        Tag(<<"org">>,
            _add_text_box(SLIDE_W - Inches(3500), SLIDE_H - Inches(600), Inches(3200),
                          Inches(400), TitleSlideOrg, FOOTER_PT, TRUE, <<156, 163, 175>>,
                          "RIGHT", FALSE)) >>]

\* has_image = bool(slide_data.get("images"))
HasImage(slide_data) == Get(slide_data, "images", <<>>) # <<>>

\* Faulty variant: reserves the image panel on every slide
DocContentRightNarrow(slide_data) == SLIDE_W - Inches(3800)

\* content_right of _build_content_slide
DocContentRight(slide_data) ==
    IF HasImage(slide_data) THEN SLIDE_W - Inches(3800) ELSE SLIDE_W - Inches(500)

\* is_sub = bullet.startswith("•")
IsSub(bullet) == StartsWith(bullet, BULLET)

\* Faulty variant: bullet rows 0.8 in apart, so a long list runs into the footer
DocBulletBoxTallRows(slide_data, i) ==
    LET bullet == Get(slide_data, "bullets", <<>>)[i]
        content_right == DocContentRight(slide_data)
        is_sub == IsSub(bullet)
        indent == IF is_sub THEN Inches(550) ELSE Inches(250)
    IN  _add_text_box(Inches(500) + indent, Inches(1750) + (i - 1) * Inches(800),
                      content_right - Inches(600) - indent, Inches(800), bullet,
                      IF is_sub THEN BODY_PT - 4 ELSE BODY_PT - 2,
                      FALSE, PRIMARY, "LEFT", FALSE)

\* The text box of bullet i (counted from 1; the code's enumerate index is i - 1).
DocBulletBox(slide_data, i) ==
    LET bullet == Get(slide_data, "bullets", <<>>)[i]
        content_right == DocContentRight(slide_data)
        bullet_top == Inches(1750)
        line_h == Inches(480)
        is_sub == IsSub(bullet)
        indent == IF is_sub THEN Inches(550) ELSE Inches(250)
    IN  _add_text_box(Inches(500) + indent, bullet_top + (i - 1) * line_h,
                      content_right - Inches(600) - indent, line_h, bullet,
                      IF is_sub THEN BODY_PT - 4 ELSE BODY_PT - 2,
                      FALSE, PRIMARY, "LEFT", FALSE)

\* The rectangle and the text box of callout j; callout_top is computed once,
\* before the loop over the callouts.
DocCalloutShapes(slide_data, j) ==
    LET bullets == Get(slide_data, "bullets", <<>>)
        callout == Get(slide_data, "callouts", <<>>)[j]
        content_right == DocContentRight(slide_data)
        callout_top == Inches(1750) + Len(bullets) * Inches(480) + Inches(150)
    IN  << Tag(<<"callout", j>>,
               _add_rect(Inches(500), callout_top, content_right - Inches(1000),
                         Inches(550), <<239, 246, 255>>)),
           Tag(<<"callout_text", j>>,
               _add_text_box(Inches(650), callout_top + Inches(50),
                             content_right - Inches(1200), Inches(480), callout,
                             CALLOUT_PT, TRUE, ACCENT, "LEFT", TRUE)) >>

\* img_path.exists() and slide.shapes.add_picture does not raise
PictureInserted(path) == env.images[path] = "ok"

\* Faulty variant: the panel and the caption are drawn only with the picture
DocPanelNoFallback(slide_data) ==
    LET img_info == slide_data.images[1]
        panel_left == SLIDE_W - Inches(3600)
        panel_top == Inches(1650)
        panel_w == Inches(3200)
        panel_h == Inches(4400)
        caption == Get(img_info, "caption", <<>>)
    IN  IF PictureInserted(img_info.path)
        THEN << Tag(<<"panel">>, _add_rect(panel_left, panel_top, panel_w, panel_h, LIGHT_GRAY)),
                Tag(<<"picture">>,
                    add_picture(img_info.path, panel_left + Inches(100),
                                panel_top + Inches(100), panel_w - Inches(200),
                                panel_h - Inches(600))) >>
             \o (IF caption # <<>>
                 THEN << Tag(<<"caption">>,
                             _add_text_box(panel_left, panel_top + panel_h - Inches(550),
                                           panel_w, Inches(450), caption, 10, FALSE,
                                           <<107, 114, 128>>, "CENTER", FALSE)) >>
                 ELSE <<>>)
        ELSE <<>>

\* Faulty variant: the panel shows the last entry of images
DocPanelLastImage(slide_data) ==
    LET img_info == slide_data.images[Len(slide_data.images)]
        panel_left == SLIDE_W - Inches(3600)
        panel_top == Inches(1650)
        panel_w == Inches(3200)
        panel_h == Inches(4400)
        caption == Get(img_info, "caption", <<>>)
    IN  << Tag(<<"panel">>, _add_rect(panel_left, panel_top, panel_w, panel_h, LIGHT_GRAY)) >>
        \o (IF PictureInserted(img_info.path)
            THEN << Tag(<<"picture">>,
                        add_picture(img_info.path, panel_left + Inches(100),
                                    panel_top + Inches(100), panel_w - Inches(200),
                                    panel_h - Inches(600))) >>
            ELSE <<>>)
        \o (IF caption # <<>>
            THEN << Tag(<<"caption">>,
                        _add_text_box(panel_left, panel_top + panel_h - Inches(550),
                                      panel_w, Inches(450), caption, 10, FALSE,
                                      <<107, 114, 128>>, "CENTER", FALSE)) >>
            ELSE <<>>)

\* The image panel: background, the picture when it can be placed, the caption
\* when there is one.
DocPanel(slide_data) ==
    LET img_info == slide_data.images[1]
        panel_left == SLIDE_W - Inches(3600)
        panel_top == Inches(1650)
        panel_w == Inches(3200)
        panel_h == Inches(4400)
        caption == Get(img_info, "caption", <<>>)
    IN  << Tag(<<"panel">>, _add_rect(panel_left, panel_top, panel_w, panel_h, LIGHT_GRAY)) >>
        \o (IF PictureInserted(img_info.path)
            THEN << Tag(<<"picture">>,
                        add_picture(img_info.path, panel_left + Inches(100),
                                    panel_top + Inches(100), panel_w - Inches(200),
                                    panel_h - Inches(600))) >>
            ELSE <<>>)
        \o (IF caption # <<>>
            THEN << Tag(<<"caption">>,
                        _add_text_box(panel_left, panel_top + panel_h - Inches(550),
                                      panel_w, Inches(450), caption, 10, FALSE,
                                      <<107, 114, 128>>, "CENTER", FALSE)) >>
            ELSE <<>>)

_build_content_slide(slide_data) ==
    LET content_right == DocContentRight(slide_data)
        bullets == Get(slide_data, "bullets", <<>>)
        callouts == Get(slide_data, "callouts", <<>>)
    IN  [background |-> <<255, 255, 255>>,
         shapes |->
            << Tag(<<"title_strip">>,
                   _add_rect(Inches(0), Inches(0), SLIDE_W, Inches(1500), PRIMARY)),
               Tag(<<"title">>,
                   _add_text_box(Inches(400), Inches(200), content_right - Inches(400),
                                 Inches(1100), slide_data.title, TITLE_PT - 4, TRUE,
                                 WHITE, "LEFT", FALSE)),
               Tag(<<"accent">>, _add_accent_bar) >>
            \o [i \in 1..Len(bullets) |-> Tag(<<"bullet", i>>, DocBulletBox(slide_data, i))]
            \o Flatten([j \in 1..Len(callouts) |-> DocCalloutShapes(slide_data, j)])
            \o (IF HasImage(slide_data) THEN DocPanel(slide_data) ELSE <<>>)
            \o << Tag(<<"footer">>, _add_footer) >>]

-----------------------------------------------------------------------------
(* The preview path (PIL).  An image is [size, background, prims]: the     *)
(* draw calls made on it, in order, each tagged with the block that made   *)
(* it.                                                                     *)

C_PRIMARY == <<17, 24, 39>>
C_ACCENT == <<37, 99, 235>>
C_WHITE == <<255, 255, 255>>
C_LIGHT_GRAY == <<243, 244, 246>>

\* draw.rectangle([(x0, y0), (x1, y1)], fill=fill)
DrawRectangle(x0, y0, x1, y1, fill) ==
    [op |-> "rectangle", x0 |-> x0, y0 |-> y0, x1 |-> x1, y1 |-> y1, fill |-> fill]

\* draw.rectangle([(x0, y0), (x1, y1)], outline=outline, width=width)
DrawOutline(x0, y0, x1, y1, outline, width) ==
    [op |-> "outline", x0 |-> x0, y0 |-> y0, x1 |-> x1, y1 |-> y1,
     outline |-> outline, width |-> width]

\* draw.ellipse([(x0, y0), (x1, y1)], fill=fill)
DrawEllipse(x0, y0, x1, y1, fill) ==
    [op |-> "ellipse", x0 |-> x0, y0 |-> y0, x1 |-> x1, y1 |-> y1, fill |-> fill]

\* draw.line([(x0, y0), (x1, y1)], fill=fill, width=width)
DrawLine(x0, y0, x1, y1, fill, width) ==
    [op |-> "line", x0 |-> x0, y0 |-> y0, x1 |-> x1, y1 |-> y1, fill |-> fill,
     width |-> width]

\* draw.text((x, y), text, font=font, fill=fill, anchor="mm")
DrawTextMM(x, y, text, font, fill) ==
    [op |-> "text_mm", x |-> x, y |-> y, text |-> text, font |-> font, fill |-> fill]

\* alpha = int(30 * (1 - i / 300)) in double precision: the quotient is
\* rounded down once more at i = 230, 240, ..., 290.
GradientAlpha(i) ==
    IF i >= 230 /\ i % 10 = 0 THEN (300 - i) \div 10 - 1 ELSE (300 - i) \div 10

_render_title_slide(slide_data) ==
    LET title_font == _load_font_bold(72)
        sub_font == _load_font(42)
        label_font == _load_font(24)
        small_font == _load_font(18)
        title == Get(slide_data, "title", <<>>)
        subtitle == Get(slide_data, "subtitle", <<>>)
        meta == Get(slide_data, "meta", <<>>)
        tags == Get(meta, "right_corner", <<>>)
    IN  [size |-> <<PX_W, PX_H>>, background |-> C_PRIMARY,
         prims |->
            << Tag(<<"accent">>, DrawRectangle(0, 0, 14, PX_H, C_ACCENT)) >>
            \o [k \in 1..300 |->
                  Tag(<<"gradient">>,
                      DrawLine(14, PX_H \div 2 - 150 + (k - 1), PX_W,
                               PX_H \div 2 - 150 + (k - 1),
                               C_ACCENT \o <<GradientAlpha(k - 1)>>, 0))]
            \o TagAll(<<"title">>,
                      _draw_wrapped_text(title, title_font, 60, 200, PX_W - 140,
                                         C_WHITE, 84).drawn)
            \o TagAll(<<"subtitle">>,
                      _draw_wrapped_text(subtitle, sub_font, 60, 340, PX_W - 140,
                                         <<147, 197, 253>>, 52).drawn)
            \o [k \in 1..Len(tags) |->
                  Tag(<<"tag">>, DrawText(60, 460, tags[k], label_font, C_MID_GRAY))]
            \o << Tag(<<"org">>,
                      DrawText(PX_W - 240, PX_H - 50, TitleSlideOrg, small_font,
                               C_MID_GRAY)) >>]

TITLE_STRIP_H == 110

\* Faulty variant: the preview keeps the full width beside the image panel
PvContentRightFull(slide_data) == PX_W - 40

\* content_right of _render_content_slide
PvContentRight(slide_data) == IF HasImage(slide_data) THEN PX_W - 340 ELSE PX_W - 40

\* Faulty variant: draws only the first line of a bullet
PvBulletFirstLine(slide_data, i, y) ==
    LET bullet == Get(slide_data, "bullets", <<>>)[i]
        content_right == PvContentRight(slide_data)
        is_sub == IsSub(bullet)
        bx == IF is_sub THEN 70 ELSE 45
        bfont == IF is_sub THEN _load_font(22) ELSE _load_font(26)
        bcolor == IF is_sub THEN <<75, 85, 99>> ELSE C_PRIMARY
        w == _draw_wrapped_text(bullet, bfont, bx, y, content_right - bx - 20, bcolor, 36)
    IN  [prims |->
            (IF ~is_sub
             THEN << Tag(<<"dot", i>>, DrawEllipse(bx - 16, y + 10, bx - 8, y + 18, C_ACCENT)) >>
             ELSE <<>>)
            \o TagAll(<<"bullet", i>>, IF w.drawn = <<>> THEN <<>> ELSE <<w.drawn[1]>>),
         y |-> w.y + 6]

\* One iteration of "for bullet in bullets": the draw calls made for the
\* bullet whose index (from 1) is i, starting at y, and the y it leaves.
PvBullet(slide_data, i, y) ==
    LET bullet == Get(slide_data, "bullets", <<>>)[i]
        content_right == PvContentRight(slide_data)
        body_font == _load_font(26)
        sub_font == _load_font(22)
        is_sub == IsSub(bullet)
        bx == IF is_sub THEN 70 ELSE 45
        bfont == IF is_sub THEN sub_font ELSE body_font
        bcolor == IF is_sub THEN <<75, 85, 99>> ELSE C_PRIMARY
        w == _draw_wrapped_text(bullet, bfont, bx, y, content_right - bx - 20, bcolor, 36)
    IN  [prims |->
            (IF ~is_sub
             THEN << Tag(<<"dot", i>>, DrawEllipse(bx - 16, y + 10, bx - 8, y + 18, C_ACCENT)) >>
             ELSE <<>>)
            \o TagAll(<<"bullet", i>>, w.drawn),
         y |-> w.y + 6]

\* The loop over the bullets from bullet i on.
RECURSIVE PvBullets(_, _, _)
PvBullets(slide_data, i, y) ==
    IF i > Len(Get(slide_data, "bullets", <<>>)) THEN [prims |-> <<>>, y |-> y]
    ELSE LET b == PvBullet(slide_data, i, y)
             rest == PvBullets(slide_data, i + 1, b.y)
         IN  [prims |-> b.prims \o rest.prims, y |-> rest.y]

\* One iteration of "for callout in callouts", callout j drawn at y.
PvCallout(slide_data, j, y) ==
    LET callout == Get(slide_data, "callouts", <<>>)[j]
        content_right == PvContentRight(slide_data)
        callout_font == _load_font_bold(22)
        box_h == 48
    IN  [prims |->
            << Tag(<<"callout", j>>,
                   DrawRectangle(40, y, content_right - 20, y + box_h, <<239, 246, 255>>)),
               Tag(<<"callout_edge", j>>, DrawRectangle(40, y, 44, y + box_h, C_ACCENT)),
               Tag(<<"callout_text", j>>,
                   DrawText(56, y + 12, callout, callout_font, C_ACCENT)) >>,
         y |-> y + box_h + 10]

RECURSIVE PvCallouts(_, _, _)
PvCallouts(slide_data, j, y) ==
    IF j > Len(Get(slide_data, "callouts", <<>>)) THEN [prims |-> <<>>, y |-> y]
    ELSE LET c == PvCallout(slide_data, j, y)
             rest == PvCallouts(slide_data, j + 1, c.y)
         IN  [prims |-> c.prims \o rest.prims, y |-> rest.y]

\* The image panel of the preview: a placeholder, no file is read.
PvPanel(slide_data) ==
    LET panel_x == PX_W - 325
        panel_y == TITLE_STRIP_H + 14
        panel_w == 295
        panel_h == (PX_H * 67) \div 100
        cx == panel_x + panel_w \div 2
        cy == panel_y + panel_h \div 2 - 20
        img_info == slide_data.images[1]
        caption == Get(img_info, "caption", <<>>)
        caption_font == _load_font(16)
    IN  << Tag(<<"panel">>,
               DrawRectangle(panel_x, panel_y, panel_x + panel_w, panel_y + panel_h,
                             C_LIGHT_GRAY)),
           Tag(<<"panel_outline">>,
               DrawOutline(panel_x, panel_y, panel_x + panel_w, panel_y + panel_h,
                           C_ACCENT, 2)),
           Tag(<<"placeholder">>,
               DrawLine(panel_x + 20, cy, panel_x + panel_w - 20, cy, C_MID_GRAY, 1)),
           Tag(<<"placeholder">>,
               DrawLine(cx, panel_y + 20, cx, panel_y + panel_h - 40, C_MID_GRAY, 1)) >>
        \o (IF caption # <<>>
            THEN << Tag(<<"caption">>,
                        DrawText(panel_x + 6, panel_y + panel_h + 4, caption, caption_font,
                                 <<107, 114, 128>>)) >>
            ELSE <<>>)

_render_content_slide(slide_data) ==
    LET content_right == PvContentRight(slide_data)
        title_font == _load_font_bold(44)
        footer_font == _load_font(14)
        callouts == Get(slide_data, "callouts", <<>>)
        b == PvBullets(slide_data, 1, TITLE_STRIP_H + 24)
        c == IF callouts # <<>> THEN PvCallouts(slide_data, 1, b.y + 10)
             ELSE [prims |-> <<>>, y |-> b.y]
    IN  [size |-> <<PX_W, PX_H>>, background |-> C_WHITE,
         prims |->
            << Tag(<<"title_strip">>, DrawRectangle(0, 0, PX_W, TITLE_STRIP_H, C_PRIMARY)) >>
            \o TagAll(<<"title">>,
                      _draw_wrapped_text(Get(slide_data, "title", <<>>), title_font, 30, 18,
                                         content_right - 40, C_WHITE, 52).drawn)
            \o << Tag(<<"accent">>,
                      DrawRectangle(40, TITLE_STRIP_H + 4, content_right - 20,
                                    TITLE_STRIP_H + 8, C_ACCENT)) >>
            \o b.prims
            \o c.prims
            \o (IF HasImage(slide_data) THEN PvPanel(slide_data) ELSE <<>>)
            \o << Tag(<<"footer_line">>,
                      DrawLine(30, PX_H - 36, PX_W - 30, PX_H - 36, <<229, 231, 235>>, 1)),
                  Tag(<<"footer">>,
                      DrawTextMM(PX_W \div 2, PX_H - 26, FOOTER_TEXT, footer_font,
                                 C_MID_GRAY)) >>]

render_preview(slide_data) ==
    IF slide_data.layout = "title" THEN _render_title_slide(slide_data)
    ELSE _render_content_slide(slide_data)

-----------------------------------------------------------------------------
(* main and generate_pptx of slides/generate_slides.py.                    *)

OUT_PPTX == "Ask_and_You_Shall_Debug_SCaLE.pptx"
PREVIEWS_DIR == "docs/previews"

\* PREVIEWS_DIR / f"preview_{slide_id}.png"
PreviewPath(slide_id) == PREVIEWS_DIR \o "/preview_" \o slide_id \o ".png"

default_preview_ids == {"title", "agenda", "scenario-1-dns-symptoms", "architecture-high-level"}

\* sorted(S) for a set of ids
Sorted(S) == SelectSeq(SortedIds, LAMBDA id : id \in S)

\* by_id = {s["id"]: s for s in SLIDES}: the keys, and the value of a key (the
\* last descriptor of the list with that id).
KnownIds == {SLIDES[k].id : k \in DOMAIN SLIDES}

by_id(slide_id) ==
    LET last == CHOOSE k \in DOMAIN SLIDES :
                    /\ SLIDES[k].id = slide_id
                    /\ \A m \in DOMAIN SLIDES : SLIDES[m].id = slide_id => m <= k
    IN  SLIDES[last]

\* The file system after writing content to path.
Write(fs, path, content) ==
    [p \in DOMAIN fs \cup {path} |-> IF p = path THEN content ELSE fs[p]]

\* Faulty variant: every descriptor is laid out as a content page
BuildSlideAlwaysContent(slide_data) == _build_content_slide(slide_data)

\* The page generate_pptx adds for one descriptor.
BuildSlide(slide_data) ==
    IF slide_data.layout = "title" THEN _build_title_slide
    ELSE _build_content_slide(slide_data)

\* preview_ids of main
PreviewIds(a) ==
    IF ~a.preview_slides.is_none THEN Range(a.preview_slides.list) ELSE default_preview_ids

\* args = parser.parse_args(); preview_ids = ...; if not args.no_pptx: ...
ParseArgs ==
    /\ pc = "main"
    /\ preview_ids' = PreviewIds(args)
    /\ prs' = <<>>
    /\ pc' = IF ~args.no_pptx THEN "generate_pptx" ELSE "previews"
    /\ UNCHANGED <<SLIDES, args, env, todo, files, stdout, call, result>>

\* generate_pptx: one iteration of "for slide_data in SLIDES"
AddSlide ==
    /\ pc = "generate_pptx"
    /\ Len(prs) < Len(SLIDES)
    /\ prs' = Append(prs, BuildSlide(SLIDES[Len(prs) + 1]))
    /\ UNCHANGED <<SLIDES, args, env, pc, preview_ids, todo, files, stdout, call, result>>

\* generate_pptx: prs.save(str(output_path)); print(...).  A failing save
\* raises, and nothing in main catches it.
SavePptx ==
    /\ pc = "generate_pptx"
    /\ Len(prs) = Len(SLIDES)
    /\ IF OUT_PPTX \in env.unwritable
       THEN /\ pc' = "failed"
            /\ UNCHANGED <<files, stdout>>
       ELSE /\ files' = Write(files, OUT_PPTX, prs)
            /\ stdout' = Append(stdout, <<"[pptx] Saved", OUT_PPTX>>)
            /\ pc' = "previews"
    /\ UNCHANGED <<SLIDES, args, env, preview_ids, prs, todo, call, result>>

\* Faulty variant: previews are skipped with the document
StartPreviewsTiedToPptx ==
    /\ pc = "previews"
    /\ IF args.no_previews \/ args.no_pptx
       THEN /\ pc' = "done"
            /\ UNCHANGED <<todo, files>>
       ELSE /\ files' = IF PREVIEWS_DIR \in DOMAIN files THEN files
                        ELSE Write(files, PREVIEWS_DIR, "directory")
            /\ todo' = Sorted(preview_ids)
            /\ pc' = "preview_loop"
    /\ UNCHANGED <<SLIDES, args, env, preview_ids, prs, stdout, call, result>>

\* Faulty variant: the loop runs over the requested list as given, neither
\* sorted nor without its duplicates
StartPreviewsListAsGiven ==
    /\ pc = "previews"
    /\ IF args.no_previews
       THEN /\ pc' = "done"
            /\ UNCHANGED <<todo, files>>
       ELSE /\ files' = IF PREVIEWS_DIR \in DOMAIN files THEN files
                        ELSE Write(files, PREVIEWS_DIR, "directory")
            /\ todo' = IF args.preview_slides.is_none THEN Sorted(preview_ids)
                       ELSE args.preview_slides.list
            /\ pc' = "preview_loop"
    /\ UNCHANGED <<SLIDES, args, env, preview_ids, prs, stdout, call, result>>

\* if not args.no_previews: PREVIEWS_DIR.mkdir(...); by_id = ...; the loop
\* starts over sorted(preview_ids)
StartPreviews ==
    /\ pc = "previews"
    /\ IF args.no_previews
       THEN /\ pc' = "done"
            /\ UNCHANGED <<todo, files>>
       ELSE /\ files' = IF PREVIEWS_DIR \in DOMAIN files THEN files
                        ELSE Write(files, PREVIEWS_DIR, "directory")
            /\ todo' = Sorted(preview_ids)
            /\ pc' = "preview_loop"
    /\ UNCHANGED <<SLIDES, args, env, preview_ids, prs, stdout, call, result>>

\* Faulty variant: an unknown id ends the loop
PreviewUnknownStops ==
    /\ pc = "preview_loop"
    /\ todo # <<>>
    /\ Head(todo) \notin KnownIds
    /\ stdout' = Append(stdout, <<"[preview] Unknown slide id", Head(todo), "skipping">>)
    /\ todo' = <<>>
    /\ UNCHANGED <<SLIDES, args, env, pc, preview_ids, prs, files, call, result>>

\* if slide_id not in by_id: print(...); continue
PreviewUnknown ==
    /\ pc = "preview_loop"
    /\ todo # <<>>
    /\ Head(todo) \notin KnownIds
    /\ stdout' = Append(stdout, <<"[preview] Unknown slide id", Head(todo), "skipping">>)
    /\ todo' = Tail(todo)
    /\ UNCHANGED <<SLIDES, args, env, pc, preview_ids, prs, files, call, result>>

\* Faulty variant: a preview that cannot be saved is skipped
PreviewSlideSkipsFailure ==
    /\ pc = "preview_loop"
    /\ todo # <<>>
    /\ Head(todo) \in KnownIds
    /\ LET slide_id == Head(todo)
           preview_img == render_preview(by_id(slide_id))
           out_path == PreviewPath(slide_id)
       IN  IF out_path \in env.unwritable
           THEN /\ todo' = Tail(todo)
                /\ UNCHANGED <<pc, files, stdout>>
           ELSE /\ files' = Write(files, out_path, preview_img)
                /\ stdout' = Append(stdout, <<"[preview] Saved", out_path>>)
                /\ todo' = Tail(todo)
                /\ pc' = pc
    /\ UNCHANGED <<SLIDES, args, env, preview_ids, prs, call, result>>

\* slide_data = by_id[slide_id]; preview_img = render_preview(slide_data);
\* preview_img.save(str(out_path)); print(...)
PreviewSlide ==
    /\ pc = "preview_loop"
    /\ todo # <<>>
    /\ Head(todo) \in KnownIds
    /\ LET slide_id == Head(todo)
           preview_img == render_preview(by_id(slide_id))
           out_path == PreviewPath(slide_id)
       IN  IF out_path \in env.unwritable
           THEN /\ pc' = "failed"
                /\ UNCHANGED <<todo, files, stdout>>
           ELSE /\ files' = Write(files, out_path, preview_img)
                /\ stdout' = Append(stdout, <<"[preview] Saved", out_path>>)
                /\ todo' = Tail(todo)
                /\ pc' = pc
    /\ UNCHANGED <<SLIDES, args, env, preview_ids, prs, call, result>>

\* the loop is exhausted: main returns
Finish ==
    /\ pc = "preview_loop"
    /\ todo = <<>>
    /\ pc' = "done"
    /\ UNCHANGED <<SLIDES, args, env, preview_ids, prs, todo, files, stdout, call, result>>

Next ==
    \/ ParseArgs
    \/ AddSlide
    \/ SavePptx
    \/ StartPreviews
    \/ PreviewUnknown
    \/ PreviewSlide
    \/ Finish

-----------------------------------------------------------------------------
(* Environments and inputs.                                                *)

MaxRequested == 2    \* longest --preview-slides list
MaxBullets == 2      \* longest bullets list of a generated descriptor
MaxCallouts == 2     \* longest callouts list of a generated descriptor
MaxFontFiles == 2    \* most candidate font files present on disk
LongWordLen == 60    \* length of the long word of the generated bullets

SeqsUpTo(S, n) == UNION {[1..k -> S] : k \in 0..n}

NoFonts == [p \in FontPaths |-> "absent"]

\* A Linux host with the DejaVu fonts installed.
LinuxFonts ==
    [p \in FontPaths |->
        IF p \in {"/usr/share/fonts/truetype/dejavu/DejaVuSans.ttf",
                  "/usr/share/fonts/truetype/dejavu/DejaVuSans-Bold.ttf"}
        THEN "ok" ELSE "absent"]

\* Every state of the candidate files with at most MaxFontFiles of them present.
FontEnvs ==
    UNION {{[p \in FontPaths |-> IF p \in S THEN st[p] ELSE "absent"] :
                st \in [S -> {"ok", "bad"}]} :
           S \in {T \in SUBSET FontPaths : Cardinality(T) <= MaxFontFiles}}

DemoImagePath == "docs/media/demo.png"

ImagePaths ==
    {DemoImagePath, "docs/media/second.png"}
    \cup UNION {{im.path : im \in Range(Get(StaticSLIDES[k], "images", <<>>))} :
                k \in DOMAIN StaticSLIDES}

\* Every image file in state st: "absent", "ok", or "bad" (add_picture raises).
AllImages(st) == [p \in ImagePaths |-> st]

NoFiles == <<>>

\* The value of args.preview_slides: None (the option was not given) or the
\* list of the ids given.
NoList == [is_none |-> TRUE]

List(ids) == [is_none |-> FALSE, list |-> ids]

IdleArgs == [no_pptx |-> TRUE, no_previews |-> TRUE, preview_slides |-> NoList]

NoCall == [fn |-> "none"]

NoResult == [returned |-> FALSE]

Returned(v) == [returned |-> TRUE, value |-> v]

\* The run of main on the static list.
RequestIds == {"agenda", "title", "no-such-slide"}

Init ==
    /\ SLIDES = StaticSLIDES
    /\ args \in [no_pptx : BOOLEAN, no_previews : BOOLEAN,
                 preview_slides :
                    {NoList} \cup {List(ids) : ids \in SeqsUpTo(RequestIds, MaxRequested)}]
    /\ env \in [fonts : {NoFonts, LinuxFonts},
                images : {AllImages("absent"), AllImages("ok")},
                unwritable : {{}, {OUT_PPTX}, {PreviewPath("agenda")},
                              {PreviewPath("title")}}]
    /\ pc = "main"
    /\ preview_ids = {}
    /\ prs = <<>>
    /\ todo = <<>>
    /\ files = NoFiles
    /\ stdout = <<>>
    /\ call = NoCall
    /\ result = NoResult

Spec == Init /\ [][Next]_vars

-----------------------------------------------------------------------------
(* The run of main on a list of two descriptors, the first one generated.  *)

With(d, key, val) == [k \in DOMAIN d \cup {key} |-> IF k = key THEN val ELSE d[k]]

\* d with key set to the member of choice, or without key when choice = {}
Opt(d, key, choice) == IF choice = {} THEN d ELSE With(d, key, CHOOSE v \in choice : TRUE)

LongWord == Rep("a", LongWordLen)

\* A bullet of two words that fits the content width of a slide without
\* image panel and not that of a slide with one (when a candidate font loads).
LongBullet == LongWord \o <<" ">> \o Rep("a", LongWordLen \div 2 - 2)

BulletTexts ==
    { <<"a">>,                     \* a bullet
      <<BULLET, " ", "a">>,        \* a sub-bullet
      LongBullet,
      <<" ">> }                    \* a blank bullet

DemoImage == [path |-> DemoImagePath, caption |-> <<"c", "a", "p">>, optional |-> TRUE]

DemoImageNoCaption == [path |-> DemoImagePath, optional |-> TRUE]

SecondImage == [path |-> "docs/media/second.png", caption |-> <<"t", "w", "o">>,
                optional |-> TRUE]

Descriptors ==
    { [id |-> "demo", layout |-> "title", title |-> <<"T">>, subtitle |-> <<"s">>] }
    \cup
    { Opt(Opt(Opt([id |-> "demo", layout |-> "title_and_bullets", title |-> <<"T">>],
                  "bullets", b), "callouts", c), "images", i) :
        b \in {{}} \cup {{s} : s \in SeqsUpTo(BulletTexts, MaxBullets)},
        c \in {{}} \cup {{s} : s \in SeqsUpTo({<<"c">>}, MaxCallouts)},
        i \in {{}, {<<>>}, {<<DemoImage>>}, {<<DemoImageNoCaption>>},
               {<<DemoImage, SecondImage>>}} }

NextSlide ==
    [id |-> "next", layout |-> "title_and_bullets", title |-> <<"N">>,
     bullets |-> << <<"b">> >>]

\* The preview reads the fonts and no image file, the document the image
\* files and no font: each state of the one is paired with one of the other.
LayoutEnvs ==
    { [fonts |-> NoFonts, images |-> AllImages("absent"), unwritable |-> {}],
      [fonts |-> LinuxFonts, images |-> AllImages("ok"), unwritable |-> {}],
      [fonts |-> LinuxFonts, images |-> AllImages("bad"), unwritable |-> {}],
      [fonts |-> LinuxFonts, unwritable |-> {},
       images |-> [p \in ImagePaths |-> IF p = DemoImagePath THEN "absent" ELSE "ok"]] }

InitLayout ==
    /\ SLIDES \in {<<d, NextSlide>> : d \in Descriptors}
    /\ args = [no_pptx |-> FALSE, no_previews |-> FALSE,
               preview_slides |-> List(<<"next", "no-such-slide", "demo">>)]
    /\ env \in LayoutEnvs
    /\ pc = "main"
    /\ preview_ids = {}
    /\ prs = <<>>
    /\ todo = <<>>
    /\ files = NoFiles
    /\ stdout = <<>>
    /\ call = NoCall
    /\ result = NoResult

SpecLayout == InitLayout /\ [][Next]_vars

-----------------------------------------------------------------------------
(* Calls of the helpers on their own.                                      *)

WrapAlphabet == {"a", "i", " "}

WrapFonts == {TrueType("/usr/share/fonts/truetype/dejavu/DejaVuSans.ttf", 26), load_default}

InitWrap ==
    /\ SLIDES = <<>>
    /\ args = IdleArgs
    /\ env = [fonts |-> NoFonts, images |-> AllImages("absent"), unwritable |-> {}]
    /\ pc = "unit"
    /\ preview_ids = {}
    /\ prs = <<>>
    /\ todo = <<>>
    /\ files = NoFiles
    /\ stdout = <<>>
    /\ call \in [fn : {"_draw_wrapped_text"},
                 text : SeqsUpTo(WrapAlphabet, MaxLen),
                 font : WrapFonts,
                 x : {30}, y : {18},
                 max_width : {k * WidthStep : k \in 1..MaxWidthSteps},
                 line_height : {0, 36}]
    /\ result = NoResult

\* y = _draw_wrapped_text(draw, text, font, x, y, max_width, fill, line_height)
CallDrawWrappedText ==
    /\ call.fn = "_draw_wrapped_text"
    /\ ~result.returned
    /\ result' = Returned(_draw_wrapped_text(call.text, call.font, call.x, call.y,
                                             call.max_width, C_WHITE, call.line_height))
    /\ UNCHANGED <<mainVars, call>>

NextWrap == CallDrawWrappedText

SpecWrap == InitWrap /\ [][NextWrap]_vars

InitFont ==
    /\ SLIDES = <<>>
    /\ args = IdleArgs
    /\ env \in [fonts : FontEnvs, images : {AllImages("absent")}, unwritable : {{}}]
    /\ pc = "unit"
    /\ preview_ids = {}
    /\ prs = <<>>
    /\ todo = <<>>
    /\ files = NoFiles
    /\ stdout = <<>>
    /\ call \in [fn : {"_load_font", "_load_font_bold"}, size : {22, 26}]
                \cup [fn : {"generate_preview"}, is_title_slide : BOOLEAN]
    /\ result = NoResult

CallLoadFont ==
    /\ call.fn = "_load_font"
    /\ ~result.returned
    /\ result' = Returned(_load_font(call.size))
    /\ UNCHANGED <<mainVars, call>>

CallLoadFontBold ==
    /\ call.fn = "_load_font_bold"
    /\ ~result.returned
    /\ result' = Returned(_load_font_bold(call.size))
    /\ UNCHANGED <<mainVars, call>>

\* the font loading at the start of generate_preview (root script)
CallRootPreviewFonts ==
    /\ call.fn = "generate_preview"
    /\ ~result.returned
    /\ result' = Returned(RootPreviewFonts(call.is_title_slide))
    /\ UNCHANGED <<mainVars, call>>

NextFont == CallLoadFont \/ CallLoadFontBold \/ CallRootPreviewFonts

SpecFont == InitFont /\ [][NextFont]_vars

-----------------------------------------------------------------------------
(* _draw_wrapped_text on its own (SpecWrap).                               *)

\* The texts of the lines drawn by the call that returned, in drawing order.
DrawnLines == [k \in DOMAIN result.value.drawn |-> result.value.drawn[k].text]

WrapReturned == call.fn = "_draw_wrapped_text" /\ result.returned

\* C1: every line _draw_wrapped_text draws has a rendered width of at most
\* max_width, even when a single word is wider than max_width.
C1_EveryLineFits ==
    WrapReturned =>
        \A k \in DOMAIN DrawnLines : TextWidth(call.font, DrawnLines[k]) <= call.max_width

\* C2: the words of the drawn lines, line by line in drawing order, are the
\* words of the input text in their order: none dropped, duplicated, split
\* or reordered.
C2_WordsPreserved ==
    WrapReturned =>
        Flatten([k \in DOMAIN DrawnLines |-> Split(DrawnLines[k])]) = Split(call.text)

\* A call that broke a text of three words or more into two lines or more.
C2_Witness ==
    /\ WrapReturned
    /\ Len(Split(call.text)) >= 3
    /\ Len(DrawnLines) >= 2

-----------------------------------------------------------------------------
(* Font loading on its own (SpecFont).                                     *)

\* The candidate list of the loader that was called.
CalledCandidates ==
    IF call.fn = "_load_font" THEN FontCandidates ELSE BoldFontCandidates

\* The positions of the candidates that exist and load.
Loadable(candidates) == {i \in DOMAIN candidates : env.fonts[candidates[i]] = "ok"}

\* C9: font loading never fails the run: whatever candidate files exist or
\* not, load or fail to load, _load_font and _load_font_bold return the font
\* of the first candidate in list order that exists and loads, at the size
\* asked for, and the built-in default font when no candidate does; the font
\* loading of the root script's generate_preview returns fonts too.
C9_FontFallback ==
    /\ (call.fn \in {"_load_font", "_load_font_bold"} /\ result.returned) =>
          LET ok == Loadable(CalledCandidates)
          IN  result.value =
                 IF ok = {} THEN load_default
                 ELSE TrueType(CalledCandidates[Min(ok)], call.size)
    /\ (call.fn = "generate_preview" /\ result.returned) =>
          \A f \in DOMAIN result.value :
              result.value[f].kind \in {"truetype", "default"}
    /\ (call.fn \in {"_load_font", "_load_font_bold", "generate_preview"}
          /\ ~result.returned) => ENABLED NextFont

\* A call that skipped a candidate that exists and fails to load, and returned
\* the font of a later candidate.
C9_Witness ==
    /\ call.fn \in {"_load_font", "_load_font_bold"}
    /\ result.returned
    /\ result.value.kind = "truetype"
    /\ \E i \in DOMAIN CalledCandidates :
          /\ env.fonts[CalledCandidates[i]] = "bad"
          /\ i < Min(Loadable(CalledCandidates))

-----------------------------------------------------------------------------
(* One generated descriptor through both output paths (SpecLayout).        *)

\* The generated descriptor, its page of the saved document and its preview.
Demo == SLIDES[1]

LayoutDone == pc = "done" /\ SLIDES # <<>> /\ SLIDES[1].id = "demo"

DemoIsContent == Demo.layout = "title_and_bullets"

DemoBullets == Get(Demo, "bullets", <<>>)

DemoCallouts == Get(Demo, "callouts", <<>>)

DemoPage == files[OUT_PPTX][1]

DemoPreview == files[PreviewPath("demo")]

\* The primitives of a sequence of tagged primitives whose tag is role / whose
\* tag starts with kind.
WithRole(tagged, role) ==
    LET sel == SelectSeq(tagged, LAMBDA t : t.role = role)
    IN  [k \in DOMAIN sel |-> sel[k].prim]

OfKind(tagged, kind) ==
    LET sel == SelectSeq(tagged, LAMBDA t : t.role[1] = kind)
    IN  [k \in DOMAIN sel |-> sel[k].prim]

\* Words joined by single spaces.
RECURSIVE Join(_)
Join(words) ==
    IF words = <<>> THEN <<>>
    ELSE IF Len(words) = 1 THEN words[1]
    ELSE words[1] \o <<" ">> \o Join(Tail(words))

\* left offset of bullet i in the preview, and the width its text may take
PvBulletX(i) == IF IsSub(DemoBullets[i]) THEN 70 ELSE 45

C4_SubBulletsIndentedAndSmaller ==
    (LayoutDone /\ DemoIsContent) =>
        \A i, j \in DOMAIN DemoBullets :
            (IsSub(DemoBullets[i]) /\ ~IsSub(DemoBullets[j])) =>
                /\ LET s == WithRole(DemoPage.shapes, <<"bullet", i>>)[1]
                       n == WithRole(DemoPage.shapes, <<"bullet", j>>)[1]
                   IN  s.left > n.left /\ s.size_pt < n.size_pt
                /\ \A s \in Range(WithRole(DemoPreview.prims, <<"bullet", i>>)),
                      n \in Range(WithRole(DemoPreview.prims, <<"bullet", j>>)) :
                      s.x > n.x /\ s.font.size < n.font.size


\* A finished run whose slide holds a sub-bullet and a bullet that is not one,
\* both drawn in the preview.
C4_Case ==
    /\ LayoutDone /\ DemoIsContent
    /\ \E i, j \in DOMAIN DemoBullets :
          /\ IsSub(DemoBullets[i]) /\ ~IsSub(DemoBullets[j])
          /\ WithRole(DemoPreview.prims, <<"bullet", i>>) # <<>>
          /\ WithRole(DemoPreview.prims, <<"bullet", j>>) # <<>>

\* the boxes and lines C6 speaks of
DocBox(i) == WithRole(DemoPage.shapes, <<"bullet", i>>)[1]

NoImages == Get(Demo, "images", <<>>) = <<>>

\* C6: for a content descriptor whose images entry is absent or empty, the
\* right boundary of the content area is the canvas width minus the side margin
\* only (0.5 in in the document, 40 px in the preview), and each bullet's
\* width is that boundary minus the bullet's left offset minus a fixed padding
\* (0.1 in in the document, 20 px in the preview).
C6_FullWidthWithoutImages ==
    (LayoutDone /\ DemoIsContent /\ NoImages) =>
        /\ DocContentRight(Demo) = SLIDE_W - Inches(500)
        /\ PvContentRight(Demo) = PX_W - 40
        /\ WithRole(DemoPage.shapes, <<"panel">>) = <<>>
        /\ WithRole(DemoPreview.prims, <<"panel">>) = <<>>
        /\ LET t == WithRole(DemoPage.shapes, <<"title">>)[1]
           IN  t.left + t.width = SLIDE_W - Inches(500)
        /\ WithRole(DemoPreview.prims, <<"accent">>)[1].x1 = (PX_W - 40) - 20
        /\ \A i \in DOMAIN DemoBullets :
              /\ DocBox(i).width = (SLIDE_W - Inches(500)) - DocBox(i).left - Inches(100)
              /\ LET lines == WithRole(DemoPreview.prims, <<"bullet", i>>)
                     x == PvBulletX(i)
                 IN  \A k \in DOMAIN lines :
                        /\ lines[k].x = x
                        /\ lines[k].text =
                              WrapLines(DemoBullets[i], lines[k].font, (PX_W - 40) - x - 20)[k]
                        /\ Len(lines) =
                              Len(WrapLines(DemoBullets[i], lines[k].font, (PX_W - 40) - x - 20))

\* A finished run on a descriptor with an empty images list and the long
\* bullet, which the preview draws on one line.
C6_Witness ==
    /\ LayoutDone /\ DemoIsContent
    /\ "images" \in DOMAIN Demo /\ Demo.images = <<>>
    /\ \E i \in DOMAIN DemoBullets :
          /\ DemoBullets[i] = LongBullet
          /\ Len(WithRole(DemoPreview.prims, <<"bullet", i>>)) = 1
          /\ WithRole(DemoPreview.prims, <<"bullet", i>>)[1].font.kind = "truetype"


\* The preview's primitives of bullet i: its lines and its dot.
PvLines(i) == WithRole(DemoPreview.prims, <<"bullet", i>>)

PvDots(i) == WithRole(DemoPreview.prims, <<"dot", i>>)

\* bottom of a preview primitive: a line of text spans the 36-pixel line
\* height that y advances by, a dot its bounding box
PvBottom(p) == IF p.op = "text" THEN p.y + 36 ELSE p.y1

\* The document half of C7: text boxes of consecutive bullets from top to
\* bottom, every callout box below every bullet's box.
DocVerticalOrder ==
    /\ \A i \in DOMAIN DemoBullets :
          (i + 1 \in DOMAIN DemoBullets) =>
              /\ DocBox(i).top < DocBox(i + 1).top
              /\ DocBox(i).top + DocBox(i).height <= DocBox(i + 1).top
    /\ \A j \in DOMAIN DemoCallouts, i \in DOMAIN DemoBullets :
          WithRole(DemoPage.shapes, <<"callout", j>>)[1].top
              > DocBox(i).top + DocBox(i).height

\* The preview half of C7: lines (and dots) of consecutive bullets from top
\* to bottom, every callout box below every line and dot of every bullet.
PvVerticalOrder ==
    /\ \A i \in DOMAIN DemoBullets :
          (i + 1 \in DOMAIN DemoBullets) =>
              /\ \A p \in Range(PvLines(i)), q \in Range(PvLines(i + 1)) :
                    p.y < q.y /\ PvBottom(p) <= q.y
              /\ \A p \in Range(PvDots(i)), q \in Range(PvDots(i + 1)) : p.y0 < q.y0
    /\ \A j \in DOMAIN DemoCallouts, i \in DOMAIN DemoBullets :
          \A p \in Range(PvLines(i) \o PvDots(i)) :
              WithRole(DemoPreview.prims, <<"callout", j>>)[1].y0 > PvBottom(p)

\* C7: in both output paths, bullet i is placed strictly above bullet i+1, and
\* every callout box starts strictly below the vertical extent of every bullet
\* of the slide.
C7_VerticalOrder ==
    (LayoutDone /\ DemoIsContent) => (DocVerticalOrder /\ PvVerticalOrder)

\* What does hold: the document half for every descriptor, and the preview
\* half for every descriptor none of whose bullets is blank.
C7_OrderOfNonBlankBullets ==
    (LayoutDone /\ DemoIsContent) =>
        /\ DocVerticalOrder
        /\ (\A i \in DOMAIN DemoBullets : Split(DemoBullets[i]) # <<>>) => PvVerticalOrder

\* A finished run on a slide of two bullets, one of them wrapped into two
\* lines by the preview, and a callout.
C7_Case ==
    /\ LayoutDone /\ DemoIsContent
    /\ Len(DemoBullets) = 2 /\ Len(DemoCallouts) >= 1
    /\ Len(PvLines(1)) = 2
    /\ Len(PvLines(2)) = 1
    /\ WithRole(DemoPage.shapes, <<"callout", 1>>) # <<>>
    /\ WithRole(DemoPreview.prims, <<"callout", 1>>) # <<>>

\* the first entry of images, and whether the document could place it
DemoImg == Demo.images[1]

\* C8: when a content descriptor has an images entry whose file is absent or
\* whose insertion raises, the document path places no picture, still draws the
\* panel background rectangle and the caption text box (the caption being
\* non-empty), still adds the footer, and the run goes on to the next slide and
\* saves the document without an error.
C8_MissingImageIsSkipped ==
    /\ (SLIDES # <<>> /\ SLIDES[1].id = "demo" /\ HasImage(Demo)
           /\ ~PictureInserted(DemoImg.path))
          => /\ pc # "failed"
             /\ Len(prs) >= 1 =>
                   /\ WithRole(prs[1].shapes, <<"picture">>) = <<>>
                   /\ Len(WithRole(prs[1].shapes, <<"panel">>)) = 1
                   /\ WithRole(prs[1].shapes, <<"panel">>)[1].shape = "rect"
                   /\ Get(DemoImg, "caption", <<>>) # <<>> =>
                         /\ Len(WithRole(prs[1].shapes, <<"caption">>)) = 1
                         /\ WithRole(prs[1].shapes, <<"caption">>)[1].text = DemoImg.caption
                   /\ Len(WithRole(prs[1].shapes, <<"footer">>)) = 1
             /\ pc \in {"previews", "preview_loop", "done"} =>
                   /\ OUT_PPTX \in DOMAIN files
                   /\ Len(files[OUT_PPTX]) = Len(SLIDES)
                   /\ files[OUT_PPTX][2] = _build_content_slide(SLIDES[2])

\* A finished run whose first slide names a captioned image that could not be
\* placed: the saved document holds the panel, the caption and the next slide.
C8_Witness ==
    /\ LayoutDone /\ DemoIsContent /\ HasImage(Demo)
    /\ env.images[DemoImg.path] # "ok"
    /\ Get(DemoImg, "caption", <<>>) # <<>>
    /\ WithRole(DemoPage.shapes, <<"picture">>) = <<>>
    /\ WithRole(DemoPage.shapes, <<"caption">>) # <<>>
    /\ Len(files[OUT_PPTX]) = 2

-----------------------------------------------------------------------------
(* The run of main on the static list (Spec).                               *)

\* The ids main was asked to preview, as the arguments give them.
RequestedIds ==
    IF args.preview_slides.is_none
    THEN {"title", "agenda", "scenario-1-dns-symptoms", "architecture-high-level"}
    ELSE Range(args.preview_slides.list)

\* The ids the preview loop has been through: the head of sorted(preview_ids)
\* that is no longer to do.
Processed ==
    LET all == Sorted(RequestedIds)
    IN  Range(SubSeq(all, 1, Len(all) - Len(todo)))

\* The lines printed so far that warn about slide_id.
Warnings(slide_id) ==
    {k \in DOMAIN stdout : stdout[k] = <<"[preview] Unknown slide id", slide_id, "skipping">>}

\* The preview files written so far.
PreviewFiles == DOMAIN files \cap {PreviewPath(SortedIds[k]) : k \in DOMAIN SortedIds}

InPreviewLoop == pc = "preview_loop" \/ (pc = "done" /\ ~args.no_previews)

\* C5: when the preview loop meets a requested id that is not in the static
\* list it writes no file for it, prints exactly one warning line for it and
\* continues: every requested id that is known gets its preview file, which is
\* the rendering of its descriptor whatever else was requested.
C5_UnknownIdIsSkipped ==
    InPreviewLoop =>
        /\ \A id \in RequestedIds :
              /\ id \notin KnownIds =>
                    /\ PreviewPath(id) \notin DOMAIN files
                    /\ Cardinality(Warnings(id)) = IF id \in Processed THEN 1 ELSE 0
              /\ (id \in KnownIds /\ id \in Processed) =>
                    /\ PreviewPath(id) \in DOMAIN files
                    /\ files[PreviewPath(id)] = render_preview(by_id(id))
                    /\ Warnings(id) = {}
        /\ pc = "done" => Processed = RequestedIds

\* A finished run that was asked for an unknown id and for a known id sorted
\* after it: one warning, and the preview of the known id.
C5_Witness ==
    /\ pc = "done" /\ ~args.no_previews
    /\ "no-such-slide" \in RequestedIds /\ "title" \in RequestedIds
    /\ Cardinality(Warnings("no-such-slide")) = 1
    /\ PreviewPath("title") \in DOMAIN files
    /\ PreviewPath("no-such-slide") \notin DOMAIN files

-----------------------------------------------------------------------------
(* The outputs of a run with default options (Spec).                        *)

DefaultOptions == ~args.no_pptx /\ ~args.no_previews /\ args.preview_slides.is_none

\* C11: a run with default options produces a PNG preview
\* docs/previews/preview_<id>.png for every slide of the static list.
C11_PreviewForEverySlide ==
    (pc = "done" /\ DefaultOptions) =>
        \A k \in DOMAIN SLIDES : PreviewPath(SLIDES[k].id) \in DOMAIN files

\* What a run with default options does produce: the document, and the
\* previews of the four ids of default_preview_ids and of no other slide.
C11_DefaultRunOutputs ==
    (pc = "done" /\ DefaultOptions) =>
        /\ OUT_PPTX \in DOMAIN files
        /\ \A k \in DOMAIN SLIDES :
              PreviewPath(SLIDES[k].id) \in DOMAIN files
                  <=> SLIDES[k].id \in default_preview_ids


\* The run has passed generate_pptx / is past the save of the document.
PastDocument == pc \in {"previews", "preview_loop", "done"}

\* C12: a failure while writing an output file terminates the run at that
\* point with no retry: if saving the document fails no preview file is
\* written afterwards; if saving the preview of one id fails no preview of an
\* id later in processing order is written, while the outputs already written
\* stay.
C12_WriteFailureEndsRun ==
    /\ (PastDocument /\ ~args.no_pptx) => OUT_PPTX \notin env.unwritable
    /\ InPreviewLoop =>
          \A id \in Processed \cap KnownIds : PreviewPath(id) \notin env.unwritable
    /\ pc = "failed" =>
          /\ ~ENABLED Next
          /\ \/ /\ ~args.no_pptx /\ OUT_PPTX \in env.unwritable
                /\ files = NoFiles
             \/ /\ todo # <<>> /\ Head(todo) \in KnownIds
                /\ PreviewPath(Head(todo)) \in env.unwritable
                /\ \A k \in DOMAIN todo : PreviewPath(todo[k]) \notin DOMAIN files
                /\ \A id \in Processed \cap KnownIds :
                      /\ PreviewPath(id) \in DOMAIN files
                      /\ files[PreviewPath(id)] = render_preview(by_id(id))
                /\ ~args.no_pptx =>
                      /\ OUT_PPTX \in DOMAIN files
                      /\ files[OUT_PPTX] = [k \in DOMAIN SLIDES |-> BuildSlide(SLIDES[k])]

\* A run that ended at the save of the preview of title: the document and the
\* preview of agenda, written before, are there, that of title is not.
C12_Witness ==
    /\ pc = "failed"
    /\ todo # <<>> /\ Head(todo) = "title"
    /\ OUT_PPTX \in DOMAIN files
    /\ PreviewPath("agenda") \in DOMAIN files
    /\ PreviewPath("title") \notin DOMAIN files

\* A run that ended at the save of the document with previews asked for:
\* nothing was written.
C12_DocumentFailureCase ==
    /\ pc = "failed" /\ ~args.no_pptx /\ ~args.no_previews
    /\ OUT_PPTX \in env.unwritable
    /\ files = NoFiles

-----------------------------------------------------------------------------
(* The static texts and slide data of the root script generate_slides.py.  *)

\* "Inspektor Gadget MCP Server U+2022 https://github.com/inspektor-gadget/ig-mcp-server"
Root_FOOTER_TEXT ==
    <<"I","n","s","p","e","k","t","o","r"," ","G","a","d","g","e","t"," ","M","C","P"," ","S","e",
      "r","v","e","r"," ","u2022"," ","h","t","t","p","s",":","/","/","g","i","t","h","u","b",".",
      "c","o","m","/","i","n","s","p","e","k","t","o","r","-","g","a","d","g","e","t","/","i","g",
      "-","m","c","p","-","s","e","r","v","e","r">>

\* "Inspektor Gadget MCP Server  U+2022  SCaLE"
RootEventLabel ==
    <<"I","n","s","p","e","k","t","o","r"," ","G","a","d","g","e","t"," ","M","C","P"," ","S","e",
      "r","v","e","r"," "," ","u2022"," "," ","S","C","a","L","E">>

RootSlide02 ==
    [\* "Why conversational troubleshooting?"
     title |->
       <<"W","h","y"," ","c","o","n","v","e","r","s","a","t","i","o","n","a","l"," ","t","r","o","u",
         "b","l","e","s","h","o","o","t","i","n","g","?">>,
     bullets |-> <<
       \* "Incidents are time-sensitive and cognitively expensive"
       <<"I","n","c","i","d","e","n","t","s"," ","a","r","e"," ","t","i","m","e","-","s","e","n","s",
         "i","t","i","v","e"," ","a","n","d"," ","c","o","g","n","i","t","i","v","e","l","y"," ","e",
         "x","p","e","n","s","i","v","e">>,
       \* "Troubleshooting often requires many tools + exact commands"
       <<"T","r","o","u","b","l","e","s","h","o","o","t","i","n","g"," ","o","f","t","e","n"," ","r",
         "e","q","u","i","r","e","s"," ","m","a","n","y"," ","t","o","o","l","s"," ","+"," ","e","x",
         "a","c","t"," ","c","o","m","m","a","n","d","s">>,
       \* "Goal: make real-time observability accessible via natural language"
       <<"G","o","a","l",":"," ","m","a","k","e"," ","r","e","a","l","-","t","i","m","e"," ","o","b",
         "s","e","r","v","a","b","i","l","i","t","y"," ","a","c","c","e","s","s","i","b","l","e"," ",
         "v","i","a"," ","n","a","t","u","r","a","l"," ","l","a","n","g","u","a","g","e">>,
       \* "We'll follow an on-call story and resolve multiple scenarios"
       <<"W","e","'","l","l"," ","f","o","l","l","o","w"," ","a","n"," ","o","n","-","c","a","l","l",
         " ","s","t","o","r","y"," ","a","n","d"," ","r","e","s","o","l","v","e"," ","m","u","l","t",
         "i","p","l","e"," ","s","c","e","n","a","r","i","o","s">>
     >>]

RootSlide03 ==
    [\* "Agenda"
     title |->
       <<"A","g","e","n","d","a">>,
     bullets |-> <<
       \* "Demo 1: DNS latency (trace_dns)"
       <<"D","e","m","o"," ","1",":"," ","D","N","S"," ","l","a","t","e","n","c","y"," ","(","t","r",
         "a","c","e","_","d","n","s",")">>,
       \* "Zoom out: Inspektor Gadget + gadgets"
       <<"Z","o","o","m"," ","o","u","t",":"," ","I","n","s","p","e","k","t","o","r"," ","G","a","d",
         "g","e","t"," ","+"," ","g","a","d","g","e","t","s">>,
       \* "Why MCP server (and how it fits)"
       <<"W","h","y"," ","M","C","P"," ","s","e","r","v","e","r"," ","(","a","n","d"," ","h","o","w",
         " ","i","t"," ","f","i","t","s",")">>,
       \* "Mini-demos: disk pressure, CPU saturation, networking misconfig"
       <<"M","i","n","i","-","d","e","m","o","s",":"," ","d","i","s","k"," ","p","r","e","s","s","u",
         "r","e",","," ","C","P","U"," ","s","a","t","u","r","a","t","i","o","n",","," ","n","e","t",
         "w","o","r","k","i","n","g"," ","m","i","s","c","o","n","f","i","g">>,
       \* "Wrap-up + resources"
       <<"W","r","a","p","-","u","p"," ","+"," ","r","e","s","o","u","r","c","e","s">>
     >>]

RootSlide04 ==
    [\* "Scenario 1: Slow requests U+2192 DNS latency"
     title |->
       <<"S","c","e","n","a","r","i","o"," ","1",":"," ","S","l","o","w"," ","r","e","q","u","e","s",
         "t","s"," ","u2192"," ","D","N","S"," ","l","a","t","e","n","c","y">>,
     bullets |-> <<
       \* "Symptom: intermittent slowness / timeouts"
       <<"S","y","m","p","t","o","m",":"," ","i","n","t","e","r","m","i","t","t","e","n","t"," ","s",
         "l","o","w","n","e","s","s"," ","/"," ","t","i","m","e","o","u","t","s">>,
       \* "Hypothesis space is large (DNS, network, app, load, etc.)"
       <<"H","y","p","o","t","h","e","s","i","s"," ","s","p","a","c","e"," ","i","s"," ","l","a","r",
         "g","e"," ","(","D","N","S",","," ","n","e","t","w","o","r","k",","," ","a","p","p",","," ",
         "l","o","a","d",","," ","e","t","c",".",")">>,
       \* "We start by validating whether DNS resolution is slow"
       <<"W","e"," ","s","t","a","r","t"," ","b","y"," ","v","a","l","i","d","a","t","i","n","g"," ",
         "w","h","e","t","h","e","r"," ","D","N","S"," ","r","e","s","o","l","u","t","i","o","n"," ",
         "i","s"," ","s","l","o","w">>,
       \* "Tool we'll use: trace_dns"
       <<"T","o","o","l"," ","w","e","'","l","l"," ","u","s","e",":"," ","t","r","a","c","e","_","d",
         "n","s">>,
       \* "Key idea: measure, don't guess."
       <<"K","e","y"," ","i","d","e","a",":"," ","m","e","a","s","u","r","e",","," ","d","o","n","'",
         "t"," ","g","u","e","s","s",".">>
     >>]

RootSlide05 ==
    [\* "Using trace_dns to observe DNS in real time"
     title |->
       <<"U","s","i","n","g"," ","t","r","a","c","e","_","d","n","s"," ","t","o"," ","o","b","s","e",
         "r","v","e"," ","D","N","S"," ","i","n"," ","r","e","a","l"," ","t","i","m","e">>,
     bullets |-> <<
       \* "trace_dns traces DNS requests and responses"
       <<"t","r","a","c","e","_","d","n","s"," ","t","r","a","c","e","s"," ","D","N","S"," ","r","e",
         "q","u","e","s","t","s"," ","a","n","d"," ","r","e","s","p","o","n","s","e","s">>,
       \* "It captures request/response pairs and computes latency"
       <<"I","t"," ","c","a","p","t","u","r","e","s"," ","r","e","q","u","e","s","t","/","r","e","s",
         "p","o","n","s","e"," ","p","a","i","r","s"," ","a","n","d"," ","c","o","m","p","u","t","e",
         "s"," ","l","a","t","e","n","c","y">>,
       \* "Use it to identify slow lookups and affected workloads"
       <<"U","s","e"," ","i","t"," ","t","o"," ","i","d","e","n","t","i","f","y"," ","s","l","o","w",
         " ","l","o","o","k","u","p","s"," ","a","n","d"," ","a","f","f","e","c","t","e","d"," ","w",
         "o","r","k","l","o","a","d","s">>,
       \* "Outcome: narrow the problem quickly and objectively"
       <<"O","u","t","c","o","m","e",":"," ","n","a","r","r","o","w"," ","t","h","e"," ","p","r","o",
         "b","l","e","m"," ","q","u","i","c","k","l","y"," ","a","n","d"," ","o","b","j","e","c","t",
         "i","v","e","l","y">>
     >>]

RootSlide06 ==
    [\* "What is Inspektor Gadget?"
     title |->
       <<"W","h","a","t"," ","i","s"," ","I","n","s","p","e","k","t","o","r"," ","G","a","d","g","e",
         "t","?">>,
     bullets |-> <<
       \* "A systems inspection + data collection framework powered by eBPF"
       <<"A"," ","s","y","s","t","e","m","s"," ","i","n","s","p","e","c","t","i","o","n"," ","+"," ",
         "d","a","t","a"," ","c","o","l","l","e","c","t","i","o","n"," ","f","r","a","m","e","w","o",
         "r","k"," ","p","o","w","e","r","e","d"," ","b","y"," ","e","B","P","F">>,
       \* "Provides observability in Kubernetes and Linux contexts"
       <<"P","r","o","v","i","d","e","s"," ","o","b","s","e","r","v","a","b","i","l","i","t","y"," ",
         "i","n"," ","K","u","b","e","r","n","e","t","e","s"," ","a","n","d"," ","L","i","n","u","x",
         " ","c","o","n","t","e","x","t","s">>,
       \* "Ships a wide selection of U+201CgadgetsU+201D for debugging and monitoring"
       <<"S","h","i","p","s"," ","a"," ","w","i","d","e"," ","s","e","l","e","c","t","i","o","n"," ",
         "o","f"," ","u201C","g","a","d","g","e","t","s","u201D"," ","f","o","r"," ","d","e","b","u",
         "g","g","i","n","g"," ","a","n","d"," ","m","o","n","i","t","o","r","i","n","g">>,
       \* "Designed to make low-level visibility usable in familiar workflows"
       <<"D","e","s","i","g","n","e","d"," ","t","o"," ","m","a","k","e"," ","l","o","w","-","l","e",
         "v","e","l"," ","v","i","s","i","b","i","l","i","t","y"," ","u","s","a","b","l","e"," ","i",
         "n"," ","f","a","m","i","l","i","a","r"," ","w","o","r","k","f","l","o","w","s">>
     >>]

RootSlide07 ==
    [\* "What is a U+201CgadgetU+201D?"
     title |->
       <<"W","h","a","t"," ","i","s"," ","a"," ","u201C","g","a","d","g","e","t","u201D","?">>,
     bullets |-> <<
       \* "A purpose-built observability tool (trace / snapshot / top / profile)"
       <<"A"," ","p","u","r","p","o","s","e","-","b","u","i","l","t"," ","o","b","s","e","r","v","a",
         "b","i","l","i","t","y"," ","t","o","o","l"," ","(","t","r","a","c","e"," ","/"," ","s","n",
         "a","p","s","h","o","t"," ","/"," ","t","o","p"," ","/"," ","p","r","o","f","i","l","e",")">>,
       \* "Examples we'll use today:"
       <<"E","x","a","m","p","l","e","s"," ","w","e","'","l","l"," ","u","s","e"," ","t","o","d","a",
         "y",":">>,
       \* "U+2022 trace_dns (DNS requests/responses + latency)"
       <<"u2022"," ","t","r","a","c","e","_","d","n","s"," ","(","D","N","S"," ","r","e","q","u","e",
         "s","t","s","/","r","e","s","p","o","n","s","e","s"," ","+"," ","l","a","t","e","n","c","y",
         ")">>,
       \* "U+2022 profile_blockio + top_blockio (disk pressure / block I/O)"
       <<"u2022"," ","p","r","o","f","i","l","e","_","b","l","o","c","k","i","o"," ","+"," ","t","o",
         "p","_","b","l","o","c","k","i","o"," ","(","d","i","s","k"," ","p","r","e","s","s","u","r",
         "e"," ","/"," ","b","l","o","c","k"," ","I","/","O",")">>,
       \* "U+2022 top_process (CPU-heavy processes)"
       <<"u2022"," ","t","o","p","_","p","r","o","c","e","s","s"," ","(","C","P","U","-","h","e","a",
         "v","y"," ","p","r","o","c","e","s","s","e","s",")">>,
       \* "U+2022 tcpdump (packet capture with filters in container context)"
       <<"u2022"," ","t","c","p","d","u","m","p"," ","(","p","a","c","k","e","t"," ","c","a","p","t",
         "u","r","e"," ","w","i","t","h"," ","f","i","l","t","e","r","s"," ","i","n"," ","c","o","n",
         "t","a","i","n","e","r"," ","c","o","n","t","e","x","t",")">>
     >>]

RootSlide08 ==
    [\* "Problem: many gadgets U+2192 hard to choose"
     title |->
       <<"P","r","o","b","l","e","m",":"," ","m","a","n","y"," ","g","a","d","g","e","t","s"," ",
         "u2192"," ","h","a","r","d"," ","t","o"," ","c","h","o","o","s","e">>,
     bullets |-> <<
       \* "Inspektor Gadget has a large library of powerful gadgets"
       <<"I","n","s","p","e","k","t","o","r"," ","G","a","d","g","e","t"," ","h","a","s"," ","a"," ",
         "l","a","r","g","e"," ","l","i","b","r","a","r","y"," ","o","f"," ","p","o","w","e","r","f",
         "u","l"," ","g","a","d","g","e","t","s">>,
       \* "In an incident, picking the right gadget quickly is the hard part"
       <<"I","n"," ","a","n"," ","i","n","c","i","d","e","n","t",","," ","p","i","c","k","i","n","g",
         " ","t","h","e"," ","r","i","g","h","t"," ","g","a","d","g","e","t"," ","q","u","i","c","k",
         "l","y"," ","i","s"," ","t","h","e"," ","h","a","r","d"," ","p","a","r","t">>,
       \* "Teams end up memorizing commands, or reaching for familiar tools first"
       <<"T","e","a","m","s"," ","e","n","d"," ","u","p"," ","m","e","m","o","r","i","z","i","n","g",
         " ","c","o","m","m","a","n","d","s",","," ","o","r"," ","r","e","a","c","h","i","n","g"," ",
         "f","o","r"," ","f","a","m","i","l","i","a","r"," ","t","o","o","l","s"," ","f","i","r","s",
         "t">>,
       \* "We wanted: U+201Cdescribe the symptom U+2192 get the right tool + next stepU+201D"
       <<"W","e"," ","w","a","n","t","e","d",":"," ","u201C","d","e","s","c","r","i","b","e"," ","t",
         "h","e"," ","s","y","m","p","t","o","m"," ","u2192"," ","g","e","t"," ","t","h","e"," ","r",
         "i","g","h","t"," ","t","o","o","l"," ","+"," ","n","e","x","t"," ","s","t","e","p","u201D">>,
       \* "This is where we discovered MCP."
       <<"T","h","i","s"," ","i","s"," ","w","h","e","r","e"," ","w","e"," ","d","i","s","c","o","v",
         "e","r","e","d"," ","M","C","P",".">>
     >>]

RootSlide09 ==
    [\* "What is MCP (Model Context Protocol)?"
     title |->
       <<"W","h","a","t"," ","i","s"," ","M","C","P"," ","(","M","o","d","e","l"," ","C","o","n","t",
         "e","x","t"," ","P","r","o","t","o","c","o","l",")","?">>,
     bullets |-> <<
       \* "A standard way for an LLM to call external tools in a structured, safe way"
       <<"A"," ","s","t","a","n","d","a","r","d"," ","w","a","y"," ","f","o","r"," ","a","n"," ","L",
         "L","M"," ","t","o"," ","c","a","l","l"," ","e","x","t","e","r","n","a","l"," ","t","o","o",
         "l","s"," ","i","n"," ","a"," ","s","t","r","u","c","t","u","r","e","d",","," ","s","a","f",
         "e"," ","w","a","y">>,
       \* "Tools are exposed with names + schemas (inputs/outputs are predictable)"
       <<"T","o","o","l","s"," ","a","r","e"," ","e","x","p","o","s","e","d"," ","w","i","t","h"," ",
         "n","a","m","e","s"," ","+"," ","s","c","h","e","m","a","s"," ","(","i","n","p","u","t","s",
         "/","o","u","t","p","u","t","s"," ","a","r","e"," ","p","r","e","d","i","c","t","a","b","l",
         "e",")">>,
       \* "Lets the model choose actions (run tools) and then explain results"
       <<"L","e","t","s"," ","t","h","e"," ","m","o","d","e","l"," ","c","h","o","o","s","e"," ","a",
         "c","t","i","o","n","s"," ","(","r","u","n"," ","t","o","o","l","s",")"," ","a","n","d"," ",
         "t","h","e","n"," ","e","x","p","l","a","i","n"," ","r","e","s","u","l","t","s">>,
       \* "In our case: the tools are Inspektor Gadget gadgets via ig-mcp-server"
       <<"I","n"," ","o","u","r"," ","c","a","s","e",":"," ","t","h","e"," ","t","o","o","l","s"," ",
         "a","r","e"," ","I","n","s","p","e","k","t","o","r"," ","G","a","d","g","e","t"," ","g","a",
         "d","g","e","t","s"," ","v","i","a"," ","i","g","-","m","c","p","-","s","e","r","v","e","r">>,
       \* "MCP turns U+201CchatU+201D into U+201Cchat + actionsU+201D (tool calls)."
       <<"M","C","P"," ","t","u","r","n","s"," ","u201C","c","h","a","t","u201D"," ","i","n","t","o",
         " ","u201C","c","h","a","t"," ","+"," ","a","c","t","i","o","n","s","u201D"," ","(","t","o",
         "o","l"," ","c","a","l","l","s",")",".">>
     >>]

RootSlide10 ==
    [\* "High-level architecture"
     title |->
       <<"H","i","g","h","-","l","e","v","e","l"," ","a","r","c","h","i","t","e","c","t","u","r","e">>,
     bullets |-> <<
       \* "Copilot/LLM U+2194 MCP protocol U+2194 ig-mcp-server U+2194 Inspektor Gadget gadgets"
       <<"C","o","p","i","l","o","t","/","L","L","M"," ","u2194"," ","M","C","P"," ","p","r","o","t",
         "o","c","o","l"," ","u2194"," ","i","g","-","m","c","p","-","s","e","r","v","e","r"," ",
         "u2194"," ","I","n","s","p","e","k","t","o","r"," ","G","a","d","g","e","t"," ","g","a","d",
         "g","e","t","s">>,
       \* "Gadgets provide real-time signals; LLM turns signals into next steps"
       <<"G","a","d","g","e","t","s"," ","p","r","o","v","i","d","e"," ","r","e","a","l","-","t","i",
         "m","e"," ","s","i","g","n","a","l","s",";"," ","L","L","M"," ","t","u","r","n","s"," ","s",
         "i","g","n","a","l","s"," ","i","n","t","o"," ","n","e","x","t"," ","s","t","e","p","s">>,
       \* "MCP server transports: stdio / sse / streamable-http"
       <<"M","C","P"," ","s","e","r","v","e","r"," ","t","r","a","n","s","p","o","r","t","s",":"," ",
         "s","t","d","i","o"," ","/"," ","s","s","e"," ","/"," ","s","t","r","e","a","m","a","b","l",
         "e","-","h","t","t","p">>,
       \* "Gadget discovery: Artifact Hub or explicit gadget images"
       <<"G","a","d","g","e","t"," ","d","i","s","c","o","v","e","r","y",":"," ","A","r","t","i","f",
         "a","c","t"," ","H","u","b"," ","o","r"," ","e","x","p","l","i","c","i","t"," ","g","a","d",
         "g","e","t"," ","i","m","a","g","e","s">>,
       \* "[See: docs/media/placeholder_architecture.png]"
       <<"[","S","e","e",":"," ","d","o","c","s","/","m","e","d","i","a","/","p","l","a","c","e","h",
         "o","l","d","e","r","_","a","r","c","h","i","t","e","c","t","u","r","e",".","p","n","g","]">>
     >>]

RootSlide11 ==
    [\* "Human vs. AI troubleshooting"
     title |->
       <<"H","u","m","a","n"," ","v","s","."," ","A","I"," ","t","r","o","u","b","l","e","s","h","o",
         "o","t","i","n","g">>,
     bullets |-> <<
       \* "Humans: hypothesis-driven, sequential, bias-prone under pressure"
       <<"H","u","m","a","n","s",":"," ","h","y","p","o","t","h","e","s","i","s","-","d","r","i","v",
         "e","n",","," ","s","e","q","u","e","n","t","i","a","l",","," ","b","i","a","s","-","p","r",
         "o","n","e"," ","u","n","d","e","r"," ","p","r","e","s","s","u","r","e">>,
       \* "LLM + real-time tools: broader search, more consistent method"
       <<"L","L","M"," ","+"," ","r","e","a","l","-","t","i","m","e"," ","t","o","o","l","s",":"," ",
         "b","r","o","a","d","e","r"," ","s","e","a","r","c","h",","," ","m","o","r","e"," ","c","o",
         "n","s","i","s","t","e","n","t"," ","m","e","t","h","o","d">>,
       \* "Best results come from collaboration (human judgment + machine speed)"
       <<"B","e","s","t"," ","r","e","s","u","l","t","s"," ","c","o","m","e"," ","f","r","o","m"," ",
         "c","o","l","l","a","b","o","r","a","t","i","o","n"," ","(","h","u","m","a","n"," ","j","u",
         "d","g","m","e","n","t"," ","+"," ","m","a","c","h","i","n","e"," ","s","p","e","e","d",")">>,
       \* "Guardrail: confirm findings with observable evidence"
       <<"G","u","a","r","d","r","a","i","l",":"," ","c","o","n","f","i","r","m"," ","f","i","n","d",
         "i","n","g","s"," ","w","i","t","h"," ","o","b","s","e","r","v","a","b","l","e"," ","e","v",
         "i","d","e","n","c","e">>
     >>]

RootSlide12 ==
    [\* "Scenario 2: Disk pressure"
     title |->
       <<"S","c","e","n","a","r","i","o"," ","2",":"," ","D","i","s","k"," ","p","r","e","s","s","u",
         "r","e">>,
     bullets |-> <<
       \* "Symptom: disk pressure alerts, slow writes, cascading failures"
       <<"S","y","m","p","t","o","m",":"," ","d","i","s","k"," ","p","r","e","s","s","u","r","e"," ",
         "a","l","e","r","t","s",","," ","s","l","o","w"," ","w","r","i","t","e","s",","," ","c","a",
         "s","c","a","d","i","n","g"," ","f","a","i","l","u","r","e","s">>,
       \* "Identify which workloads drive I/O and what patterns are present"
       <<"I","d","e","n","t","i","f","y"," ","w","h","i","c","h"," ","w","o","r","k","l","o","a","d",
         "s"," ","d","r","i","v","e"," ","I","/","O"," ","a","n","d"," ","w","h","a","t"," ","p","a",
         "t","t","e","r","n","s"," ","a","r","e"," ","p","r","e","s","e","n","t">>,
       \* "Gadgets:"
       <<"G","a","d","g","e","t","s",":">>,
       \* "U+2022 profile_blockio (profiling block I/O behavior)"
       <<"u2022"," ","p","r","o","f","i","l","e","_","b","l","o","c","k","i","o"," ","(","p","r","o",
         "f","i","l","i","n","g"," ","b","l","o","c","k"," ","I","/","O"," ","b","e","h","a","v","i",
         "o","r",")">>,
       \* "U+2022 top_blockio (top block I/O contributors)"
       <<"u2022"," ","t","o","p","_","b","l","o","c","k","i","o"," ","(","t","o","p"," ","b","l","o",
         "c","k"," ","I","/","O"," ","c","o","n","t","r","i","b","u","t","o","r","s",")">>
     >>]

RootSlide13 ==
    [\* "Scenario 3: CPU saturation"
     title |->
       <<"S","c","e","n","a","r","i","o"," ","3",":"," ","C","P","U"," ","s","a","t","u","r","a","t",
         "i","o","n">>,
     bullets |-> <<
       \* "Symptom: high latency + throttling + noisy neighbor suspicion"
       <<"S","y","m","p","t","o","m",":"," ","h","i","g","h"," ","l","a","t","e","n","c","y"," ","+",
         " ","t","h","r","o","t","t","l","i","n","g"," ","+"," ","n","o","i","s","y"," ","n","e","i",
         "g","h","b","o","r"," ","s","u","s","p","i","c","i","o","n">>,
       \* "Goal: identify CPU-heavy processes in the relevant workload context"
       <<"G","o","a","l",":"," ","i","d","e","n","t","i","f","y"," ","C","P","U","-","h","e","a","v",
         "y"," ","p","r","o","c","e","s","s","e","s"," ","i","n"," ","t","h","e"," ","r","e","l","e",
         "v","a","n","t"," ","w","o","r","k","l","o","a","d"," ","c","o","n","t","e","x","t">>,
       \* "Gadget: top_process"
       <<"G","a","d","g","e","t",":"," ","t","o","p","_","p","r","o","c","e","s","s">>,
       \* "Optional deeper profiling exists: profile_cpu"
       <<"O","p","t","i","o","n","a","l"," ","d","e","e","p","e","r"," ","p","r","o","f","i","l","i",
         "n","g"," ","e","x","i","s","t","s",":"," ","p","r","o","f","i","l","e","_","c","p","u">>
     >>]

RootSlide14 ==
    [\* "Scenario 4: Networking config/port mismatch"
     title |->
       <<"S","c","e","n","a","r","i","o"," ","4",":"," ","N","e","t","w","o","r","k","i","n","g"," ",
         "c","o","n","f","i","g","/","p","o","r","t"," ","m","i","s","m","a","t","c","h">>,
     bullets |-> <<
       \* "Symptom: app can't connect / sporadic failures"
       <<"S","y","m","p","t","o","m",":"," ","a","p","p"," ","c","a","n","'","t"," ","c","o","n","n",
         "e","c","t"," ","/"," ","s","p","o","r","a","d","i","c"," ","f","a","i","l","u","r","e","s">>,
       \* "Validate assumptions by observing real packets"
       <<"V","a","l","i","d","a","t","e"," ","a","s","s","u","m","p","t","i","o","n","s"," ","b","y",
         " ","o","b","s","e","r","v","i","n","g"," ","r","e","a","l"," ","p","a","c","k","e","t","s">>,
       \* "Gadget: tcpdump (packet capture with pcap-compatible filters)"
       <<"G","a","d","g","e","t",":"," ","t","c","p","d","u","m","p"," ","(","p","a","c","k","e","t",
         " ","c","a","p","t","u","r","e"," ","w","i","t","h"," ","p","c","a","p","-","c","o","m","p",
         "a","t","i","b","l","e"," ","f","i","l","t","e","r","s",")">>,
       \* "Outcome: confirm mismatch between expected vs actual traffic patterns"
       <<"O","u","t","c","o","m","e",":"," ","c","o","n","f","i","r","m"," ","m","i","s","m","a","t",
         "c","h"," ","b","e","t","w","e","e","n"," ","e","x","p","e","c","t","e","d"," ","v","s"," ",
         "a","c","t","u","a","l"," ","t","r","a","f","f","i","c"," ","p","a","t","t","e","r","n","s">>
     >>]

RootSlide15 ==
    [\* "Operations & safety"
     title |->
       <<"O","p","e","r","a","t","i","o","n","s"," ","&"," ","s","a","f","e","t","y">>,
     bullets |-> <<
       \* "Run MCP server in read-only mode when appropriate"
       <<"R","u","n"," ","M","C","P"," ","s","e","r","v","e","r"," ","i","n"," ","r","e","a","d","-",
         "o","n","l","y"," ","m","o","d","e"," ","w","h","e","n"," ","a","p","p","r","o","p","r","i",
         "a","t","e">>,
       \* "Use restricted permissions via dedicated service account"
       <<"U","s","e"," ","r","e","s","t","r","i","c","t","e","d"," ","p","e","r","m","i","s","s","i",
         "o","n","s"," ","v","i","a"," ","d","e","d","i","c","a","t","e","d"," ","s","e","r","v","i",
         "c","e"," ","a","c","c","o","u","n","t">>,
       \* "Reduce scope to avoid overload (namespace, limits, timeouts)"
       <<"R","e","d","u","c","e"," ","s","c","o","p","e"," ","t","o"," ","a","v","o","i","d"," ","o",
         "v","e","r","l","o","a","d"," ","(","n","a","m","e","s","p","a","c","e",","," ","l","i","m",
         "i","t","s",","," ","t","i","m","e","o","u","t","s",")">>,
       \* "Treat AI recommendations as hypotheses until validated"
       <<"T","r","e","a","t"," ","A","I"," ","r","e","c","o","m","m","e","n","d","a","t","i","o","n",
         "s"," ","a","s"," ","h","y","p","o","t","h","e","s","e","s"," ","u","n","t","i","l"," ","v",
         "a","l","i","d","a","t","e","d">>
     >>]

RootSlide16 ==
    [\* "Wrap-up"
     title |->
       <<"W","r","a","p","-","u","p">>,
     bullets |-> <<
       \* "Inspektor Gadget: real-time observability powered by eBPF"
       <<"I","n","s","p","e","k","t","o","r"," ","G","a","d","g","e","t",":"," ","r","e","a","l","-",
         "t","i","m","e"," ","o","b","s","e","r","v","a","b","i","l","i","t","y"," ","p","o","w","e",
         "r","e","d"," ","b","y"," ","e","B","P","F">>,
       \* "MCP server: makes gadgets accessible through an AI interface"
       <<"M","C","P"," ","s","e","r","v","e","r",":"," ","m","a","k","e","s"," ","g","a","d","g","e",
         "t","s"," ","a","c","c","e","s","s","i","b","l","e"," ","t","h","r","o","u","g","h"," ","a",
         "n"," ","A","I"," ","i","n","t","e","r","f","a","c","e">>,
       \* "Scenarios: DNS latency, disk pressure, CPU saturation, networking"
       <<"S","c","e","n","a","r","i","o","s",":"," ","D","N","S"," ","l","a","t","e","n","c","y",",",
         " ","d","i","s","k"," ","p","r","e","s","s","u","r","e",","," ","C","P","U"," ","s","a","t",
         "u","r","a","t","i","o","n",","," ","n","e","t","w","o","r","k","i","n","g">>,
       \* "Resources:"
       <<"R","e","s","o","u","r","c","e","s",":">>,
       \* "U+2022 IG MCP Server: https://github.com/inspektor-gadget/ig-mcp-server"
       <<"u2022"," ","I","G"," ","M","C","P"," ","S","e","r","v","e","r",":"," ","h","t","t","p","s",
         ":","/","/","g","i","t","h","u","b",".","c","o","m","/","i","n","s","p","e","k","t","o","r",
         "-","g","a","d","g","e","t","/","i","g","-","m","c","p","-","s","e","r","v","e","r">>,
       \* "U+2022 Inspektor Gadget: https://github.com/inspektor-gadget/inspektor-gadget"
       <<"u2022"," ","I","n","s","p","e","k","t","o","r"," ","G","a","d","g","e","t",":"," ","h","t",
         "t","p","s",":","/","/","g","i","t","h","u","b",".","c","o","m","/","i","n","s","p","e","k",
         "t","o","r","-","g","a","d","g","e","t","/","i","n","s","p","e","k","t","o","r","-","g","a",
         "d","g","e","t">>,
       \* "U+2022 Website: https://www.inspektor-gadget.io/"
       <<"u2022"," ","W","e","b","s","i","t","e",":"," ","h","t","t","p","s",":","/","/","w","w","w",
         ".","i","n","s","p","e","k","t","o","r","-","g","a","d","g","e","t",".","i","o","/">>
     >>]

\* SLIDES of the root script: the first entry is None (the title slide is
\* built separately)
RootSLIDES ==
    <<None, RootSlide02, RootSlide03, RootSlide04, RootSlide05,
      RootSlide06, RootSlide07, RootSlide08, RootSlide09, RootSlide10,
      RootSlide11, RootSlide12, RootSlide13, RootSlide14, RootSlide15,
      RootSlide16>>

-----------------------------------------------------------------------------
(* The document path of the root script generate_slides.py.  A page is     *)
(* [background, shapes], each shape tagged with the call that added it.    *)

Root_SLIDE_W == Inches(13333)
Root_SLIDE_H == Inches(7500)

PRIMARY_COLOR == <<17, 24, 39>>
ACCENT_COLOR == <<37, 99, 235>>
Root_WHITE == <<255, 255, 255>>
Root_LIGHT_GRAY == <<204, 204, 204>>

TITLE_FONT_PT == 40
BODY_FONT_PT == 20
FOOTER_FONT_PT == 12

LOGO_PATH == "docs/media/inspektor-gadget-logo.png"
OUTPUT_PATH == "Ask_and_You_Shall_Debug_SCaLE.pptx"

LOGO_W == Inches(1600)
LOGO_H == Inches(480)
LOGO_LEFT == Inches(200)
LOGO_BOTTOM_MARGIN == Inches(150)

_logo_top(slide_h) == slide_h - LOGO_H - LOGO_BOTTOM_MARGIN

\* Faulty variant: no logo is added
NoLogo(logo) == <<>>

\* _add_logo: no shape when the file does not exist, else the picture.  (A
\* file that exists and is no image makes add_picture raise: see LogoRaises.)
_add_logo(logo) ==
    IF logo.state = "absent" THEN <<>>
    ELSE << Tag(<<"logo">>,
                add_picture(LOGO_PATH, LOGO_LEFT, _logo_top(Root_SLIDE_H), LOGO_W, LOGO_H)) >>

LogoRaises(logo) == logo.state = "bad"

Root_add_footer ==
    Tag(<<"footer">>,
        [shape |-> "textbox", left |-> Inches(2000), top |-> Root_SLIDE_H - Inches(500),
         width |-> Root_SLIDE_W - Inches(4000), height |-> Inches(400),
         text |-> Root_FOOTER_TEXT, size_pt |-> FOOTER_FONT_PT, color |-> Root_LIGHT_GRAY,
         align |-> "CENTER", word_wrap |-> FALSE])

Root_add_accent_bar ==
    Tag(<<"accent">>, _add_rect(Inches(0), Inches(0), Root_SLIDE_W, Inches(70), ACCENT_COLOR))

_add_title_text(title, left, top, width, height, font_pt, bold, color) ==
    [shape |-> "textbox", left |-> left, top |-> top, width |-> width, height |-> height,
     text |-> title, size_pt |-> font_pt, bold |-> bold, color |-> color, word_wrap |-> TRUE]

\* run.text = bullet if bullet.startswith(BULLET) else BULLET + " " + bullet
MarkedBullet(bullet) ==
    IF StartsWith(bullet, BULLET) THEN bullet ELSE <<BULLET, " ">> \o bullet

\* One text box, one paragraph per bullet.
_add_bullets(bullets, left, top, width, height) ==
    [shape |-> "textbox", left |-> left, top |-> top, width |-> width, height |-> height,
     paragraphs |-> [i \in DOMAIN bullets |->
                        [text |-> MarkedBullet(bullets[i]), size_pt |-> BODY_FONT_PT,
                         color |-> Root_WHITE, space_before |-> 4]],
     word_wrap |-> TRUE]

build_title_slide(logo) ==
    [layout |-> "title", background |-> PRIMARY_COLOR,
     shapes |->
        << Root_add_accent_bar,
           Tag(<<"title">>,
               _add_title_text(TitleSlideTitle, Inches(800), Inches(1500), Inches(11000),
                               Inches(1400), 44, TRUE, Root_WHITE)),
           Tag(<<"subtitle">>,
               _add_title_text(TitleSlideSubtitle, Inches(800), Inches(3000), Inches(11000),
                               Inches(1000), 28, FALSE, <<160, 196, 255>>)),
           Tag(<<"event">>,
               _add_title_text(RootEventLabel, Inches(800), Inches(4300), Inches(11000),
                               Inches(600), 18, FALSE, Root_LIGHT_GRAY)) >>
        \o _add_logo(logo)]

build_content_slide(title, bullets, logo) ==
    [layout |-> "content", background |-> PRIMARY_COLOR,
     shapes |->
        << Root_add_accent_bar,
           Tag(<<"title">>,
               _add_title_text(title, Inches(600), Inches(300), Inches(12000),
                               Inches(1100), TITLE_FONT_PT, TRUE, Root_WHITE)),
           Tag(<<"bullets">>,
               _add_bullets(bullets, Inches(600), Inches(1550), Inches(12000), Inches(4800))),
           Root_add_footer >>
        \o _add_logo(logo)]


-----------------------------------------------------------------------------
(* generate_preview and main of the root script.                           *)

RootW == 1333
RootH == 750

\* logo_h = int(logo.height * logo_w / logo.width)
RootLogoPaste(logo) ==
    LET logo_w == 160
        logo_h == (logo.height * logo_w) \div logo.width
    IN  [op |-> "paste", x |-> 20, y |-> RootH - logo_h - 15, width |-> logo_w,
         height |-> logo_h]

\* The image generate_preview saves.
generate_preview(title, bullets, is_title_slide) ==
    LET f == RootPreviewFonts(is_title_slide)
    IN  [size |-> <<RootW, RootH>>, background |-> <<17, 24, 39>>,
         prims |->
            << Tag(<<"accent">>, DrawRectangle(0, 0, RootW, 7, <<37, 99, 235>>)) >>
            \o (IF is_title_slide
                THEN << Tag(<<"title">>,
                            DrawText(80, 140, title, f.font_title, <<255, 255, 255>>)),
                        Tag(<<"subtitle">>,
                            DrawText(80, 215, IF bullets # <<>> THEN bullets[1] ELSE <<>>,
                                     f.font_subtitle, <<160, 196, 255>>)),
                        Tag(<<"event">>,
                            DrawText(80, 400, RootEventLabel, f.font_body,
                                     <<204, 204, 204>>)) >>
                ELSE << Tag(<<"title">>,
                            DrawText(60, 30, title, f.font_title, <<255, 255, 255>>)),
                        Tag(<<"divider">>,
                            DrawRectangle(60, 100, RootW - 60, 103, <<37, 99, 235>>)) >>
                     \o [i \in DOMAIN bullets |->
                            Tag(<<"bullet", i>>,
                                DrawText(80, 120 + 48 * (i - 1), MarkedBullet(bullets[i]),
                                         f.font_body, <<255, 255, 255>>))]
                     \o << Tag(<<"footer">>,
                               DrawText(RootW \div 2 - 300, RootH - 42, Root_FOOTER_TEXT,
                                        f.font_footer, <<204, 204, 204>>)) >>)
            \o (IF env.logo.state = "ok"
                THEN << Tag(<<"logo">>, RootLogoPaste(env.logo)) >>
                ELSE <<>>)]

MEDIA_DIR == "docs/media"

\* The four generate_preview calls of main, in order: title, bullets, output
\* path, is_title_slide.
RootPreviewCalls ==
    << [title |-> TitleSlideTitle, bullets |-> <<TitleSlideSubtitle>>,
        output_path |-> "docs/media/preview_title.png", is_title_slide |-> TRUE],
       [title |-> SLIDES[3].title, bullets |-> SLIDES[3].bullets,
        output_path |-> "docs/media/preview_agenda.png", is_title_slide |-> FALSE],
       [title |-> SLIDES[4].title, bullets |-> SLIDES[4].bullets,
        output_path |-> "docs/media/preview_scenario.png", is_title_slide |-> FALSE],
       [title |-> SLIDES[10].title, bullets |-> SLIDES[10].bullets,
        output_path |-> "docs/media/preview_architecture.png", is_title_slide |-> FALSE] >>

\* prs = Presentation(); ...; build_title_slide(prs)
RootBuildTitle ==
    /\ pc = "root_main"
    /\ IF LogoRaises(env.logo)
       THEN pc' = "failed" /\ UNCHANGED prs
       ELSE prs' = <<build_title_slide(env.logo)>> /\ pc' = "root_loop"
    /\ UNCHANGED <<SLIDES, args, env, preview_ids, todo, files, stdout, call, result>>

\* one iteration of "for slide_def in SLIDES[1:]"
RootAddSlide ==
    /\ pc = "root_loop"
    /\ Len(prs) < Len(SLIDES)
    /\ LET slide_def == SLIDES[Len(prs) + 1]
       IN  prs' = Append(prs, build_content_slide(slide_def.title, slide_def.bullets, env.logo))
    /\ UNCHANGED <<SLIDES, args, env, pc, preview_ids, todo, files, stdout, call, result>>

\* prs.save(OUTPUT_PATH); print(...); os.makedirs(media_dir, exist_ok=True)
RootSave ==
    /\ pc = "root_loop"
    /\ Len(prs) = Len(SLIDES)
    /\ IF OUTPUT_PATH \in env.unwritable
       THEN /\ pc' = "failed"
            /\ UNCHANGED <<files, stdout, todo>>
       ELSE /\ files' = Write(Write(files, OUTPUT_PATH, prs), MEDIA_DIR, "directory")
            /\ stdout' = Append(stdout, <<"Presentation saved", OUTPUT_PATH>>)
            /\ todo' = RootPreviewCalls
            /\ pc' = "root_previews"
    /\ UNCHANGED <<SLIDES, args, env, preview_ids, prs, call, result>>

\* one generate_preview call of main: render, warn when the logo cannot be
\* pasted, save, print
RootPreview ==
    /\ pc = "root_previews"
    /\ todo # <<>>
    /\ LET c == Head(todo)
           img == generate_preview(c.title, c.bullets, c.is_title_slide)
           warned == IF env.logo.state = "bad"
                     THEN Append(stdout, <<"Warning: could not paste logo">>)
                     ELSE stdout
       IN  IF c.output_path \in env.unwritable
           THEN /\ pc' = "failed"
                /\ stdout' = warned
                /\ UNCHANGED <<todo, files>>
           ELSE /\ files' = Write(files, c.output_path, img)
                /\ stdout' = Append(warned, <<"Preview saved", c.output_path>>)
                /\ todo' = Tail(todo)
                /\ pc' = IF Len(todo) = 1 THEN "done" ELSE pc
    /\ UNCHANGED <<SLIDES, args, env, preview_ids, prs, call, result>>

NextRoot == RootBuildTitle \/ RootAddSlide \/ RootSave \/ RootPreview

\* The states of the logo file: absent, an image of some size, or a file that
\* is no image.
LogoStates ==
    { [state |-> "absent", width |-> 1, height |-> 1],
      [state |-> "ok", width |-> 400, height |-> 120],
      [state |-> "ok", width |-> 300, height |-> 100],
      [state |-> "bad", width |-> 1, height |-> 1] }

InitRoot ==
    /\ SLIDES = RootSLIDES
    /\ args = IdleArgs
    /\ env \in [fonts : {NoFonts, LinuxFonts}, images : {AllImages("absent")},
                logo : LogoStates,
                unwritable : {{}, {OUTPUT_PATH}, {"docs/media/preview_agenda.png"}}]
    /\ pc = "root_main"
    /\ preview_ids = {}
    /\ prs = <<>>
    /\ todo = <<>>
    /\ files = NoFiles
    /\ stdout = <<>>
    /\ call = NoCall
    /\ result = NoResult

SpecRoot == InitRoot /\ [][NextRoot]_vars


-----------------------------------------------------------------------------
(* Either script is run: slides/generate_slides.py or the root script.      *)

InitEither == Init \/ InitRoot

NextEither == Next \/ NextRoot

SpecEither == InitEither /\ [][NextEither]_vars

\* The run is one of the root script.
IsRootRun == "logo" \in DOMAIN env

\* The lines printed so far that report the save of the document.
SavedLines ==
    {k \in DOMAIN stdout :
        stdout[k] \in {<<"[pptx] Saved", OUT_PPTX>>, <<"Presentation saved", OUTPUT_PATH>>}}

\* C13: the document emitter adds exactly one page per descriptor of the
\* static list, in list order, a title page for a descriptor with layout
\* title and a content page for every other one, and saves the document once
\* after all pages are added; in the root script the pages are one title page
\* followed by one content page per entry of SLIDES after the first, 16 in all.
C13_OnePagePerDescriptor ==
    /\ Len(prs) <= Len(SLIDES)
    /\ Cardinality(SavedLines) <= 1
    /\ ~IsRootRun =>
          /\ \A k \in DOMAIN prs :
                prs[k] = IF SLIDES[k].layout = "title" THEN _build_title_slide
                         ELSE _build_content_slide(SLIDES[k])
          /\ OUT_PPTX \in DOMAIN files <=> SavedLines # {}
          /\ OUT_PPTX \in DOMAIN files =>
                /\ files[OUT_PPTX] = prs
                /\ Len(prs) = Len(SLIDES)
                /\ Len(prs) = 16
    /\ IsRootRun =>
          /\ \A k \in DOMAIN prs :
                /\ k = 1 => prs[k] = build_title_slide(env.logo)
                /\ k > 1 => prs[k] = build_content_slide(SLIDES[k].title, SLIDES[k].bullets,
                                                          env.logo)
          /\ OUTPUT_PATH \in DOMAIN files <=> SavedLines # {}
          /\ OUTPUT_PATH \in DOMAIN files =>
                /\ files[OUTPUT_PATH] = prs
                /\ Len(prs) = 16
                /\ prs[1].layout = "title"
                /\ \A k \in 2..16 : prs[k].layout = "content"

\* A finished run of slides/generate_slides.py that saved the 16 pages: the
\* first a title page, the second a content page.
C13_Witness ==
    /\ ~IsRootRun /\ pc = "done"
    /\ OUT_PPTX \in DOMAIN files
    /\ Len(files[OUT_PPTX]) = 16
    /\ files[OUT_PPTX][1] = _build_title_slide
    /\ files[OUT_PPTX][2] = _build_content_slide(SLIDES[2])

\* A finished run of the root script that saved its 16 pages.
C13_RootCase ==
    /\ IsRootRun /\ pc = "done"
    /\ Len(files[OUTPUT_PATH]) = 16


-----------------------------------------------------------------------------
(* The logo of the root script's document (SpecRoot).                       *)

\* The logo pictures of a page.
Logos(page) == WithRole(page.shapes, <<"logo">>)

\* The pictures of a page, whatever added them.
Pictures(page) == {k \in DOMAIN page.shapes : page.shapes[k].prim.shape = "picture"}

\* C14: in the root script the logo is placed in the bottom-left corner of
\* every slide of the document, the title slide and every content slide, at
\* the same position and size on each and wholly inside the slide bounds; when
\* the logo file is absent no picture is added and the slide is still built.
C14_LogoOnEverySlide ==
    /\ env.logo.state = "ok" =>
          \A k \in DOMAIN prs :
              /\ Len(Logos(prs[k])) = 1
              /\ Cardinality(Pictures(prs[k])) = 1
              /\ Logos(prs[k])[1] = Logos(prs[1])[1]
              /\ LET l == Logos(prs[k])[1]
                 IN  /\ l.left = Inches(200) /\ l.width = Inches(1600)
                     /\ l.height = Inches(480)
                     /\ l.top + l.height = Root_SLIDE_H - Inches(150)
                     /\ l.left >= 0 /\ l.top >= 0
                     /\ l.left + l.width <= Root_SLIDE_W
                     /\ l.top + l.height <= Root_SLIDE_H
                     /\ 2 * (l.left + l.width) <= Root_SLIDE_W
                     /\ 2 * l.top >= Root_SLIDE_H
    /\ env.logo.state = "absent" =>
          /\ pc # "failed" \/ env.unwritable # {}
          /\ \A k \in DOMAIN prs : Pictures(prs[k]) = {}
          /\ pc \in {"root_previews", "done"} =>
                /\ Len(prs) = Len(SLIDES)
                /\ files[OUTPUT_PATH] = prs
                /\ prs[1] = build_title_slide(env.logo)

\* A saved document of the root script with the logo on the title page and
\* on the 15 content pages.
C14_Witness ==
    /\ IsRootRun /\ pc = "done" /\ env.logo.state = "ok"
    /\ Len(files[OUTPUT_PATH]) = 16
    /\ \A k \in 1..16 : Len(Logos(files[OUTPUT_PATH][k])) = 1

\* A saved document of the root script built without the logo file.
C14_AbsentCase ==
    /\ IsRootRun /\ pc = "done" /\ env.logo.state = "absent"
    /\ Len(files[OUTPUT_PATH]) = 16
    /\ \A k \in 1..16 : Pictures(files[OUTPUT_PATH][k]) = {}


-----------------------------------------------------------------------------
(* The entries of images after the first (SpecLayout).                      *)

\* The generated descriptor with only the first entry of its images.
DemoFirstImageOnly == With(Demo, "images", <<Demo.images[1]>>)

SeveralImages == "images" \in DOMAIN Demo /\ Len(Demo.images) > 1

\* C15: for a content descriptor whose images list has more than one entry
\* only the first entry is rendered in either output path: exactly one image
\* panel and at most one caption are drawn, and the entries after the first
\* have no effect on the output.
C15_OnlyFirstImage ==
    (LayoutDone /\ DemoIsContent /\ SeveralImages) =>
        /\ DemoPage = _build_content_slide(DemoFirstImageOnly)
        /\ DemoPreview = render_preview(DemoFirstImageOnly)
        /\ Len(WithRole(DemoPage.shapes, <<"panel">>)) = 1
        /\ Len(WithRole(DemoPreview.prims, <<"panel">>)) = 1
        /\ Len(WithRole(DemoPage.shapes, <<"caption">>)) <= 1
        /\ Len(WithRole(DemoPreview.prims, <<"caption">>)) <= 1
        /\ \A c \in Range(WithRole(DemoPage.shapes, <<"caption">>)) :
              c.text = Demo.images[1].caption
        /\ \A c \in Range(WithRole(DemoPreview.prims, <<"caption">>)) :
              c.text = Demo.images[1].caption
        /\ \A p \in Range(WithRole(DemoPage.shapes, <<"picture">>)) :
              p.path = Demo.images[1].path
        /\ Len(WithRole(DemoPage.shapes, <<"picture">>))
              = IF env.images[Demo.images[1].path] = "ok" THEN 1 ELSE 0

\* A finished run on a descriptor of two images, the file of the first one
\* absent and that of the second one present: one panel, the caption of the
\* first, and no picture.
C15_Witness ==
    /\ LayoutDone /\ DemoIsContent /\ SeveralImages
    /\ env.images[Demo.images[1].path] = "absent"
    /\ env.images[Demo.images[2].path] = "ok"
    /\ Len(WithRole(DemoPage.shapes, <<"panel">>)) = 1
    /\ WithRole(DemoPage.shapes, <<"picture">>) = <<>>
    /\ Len(WithRole(DemoPage.shapes, <<"caption">>)) = 1
    /\ Len(WithRole(DemoPreview.prims, <<"caption">>)) = 1


-----------------------------------------------------------------------------
(* Line breaks and vertical advance of _draw_wrapped_text (SpecWrap).       *)

\* C16: _draw_wrapped_text is greedy: for every pair of consecutive lines it
\* produces, the first line followed by a space and the first word of the next
\* line is wider than max_width: a line break is placed only where the next
\* word does not fit.
C16_GreedyBreaks ==
    WrapReturned =>
        \A k \in DOMAIN DrawnLines :
            (k + 1 \in DOMAIN DrawnLines) =>
                TextWidth(call.font,
                          DrawnLines[k] \o <<" ">> \o Split(DrawnLines[k + 1])[1])
                    > call.max_width

\* A call that drew two lines or more, the first of them of two words or more.
C16_Witness ==
    /\ WrapReturned
    /\ Len(DrawnLines) >= 2
    /\ Len(Split(DrawnLines[1])) >= 2

\* The line height the call uses: line_height, or the bottom of "Ag" plus 4
\* when none is given.
CallLineHeight ==
    IF call.line_height = 0 THEN TextBottom(call.font) + 4 ELSE call.line_height

\* C17: _draw_wrapped_text returns the start y plus the line height times the
\* number of lines it drew, with line k (from 0) drawn at y + k * line height;
\* for an empty or whitespace-only text it draws no line and returns the start
\* y unchanged.
C17_ReturnsFinalY ==
    WrapReturned =>
        /\ result.value.y = call.y + CallLineHeight * Len(DrawnLines)
        /\ \A k \in DOMAIN DrawnLines :
              /\ result.value.drawn[k].y = call.y + (k - 1) * CallLineHeight
              /\ result.value.drawn[k].x = call.x
        /\ (\A k \in DOMAIN call.text : call.text[k] = " ") =>
              /\ DrawnLines = <<>>
              /\ result.value.y = call.y

\* A call that drew three lines with the line height of the font, none given.
C17_Witness ==
    /\ WrapReturned
    /\ call.line_height = 0
    /\ Len(DrawnLines) = 3
    /\ result.value.y = call.y + 3 * (TextBottom(call.font) + 4)

\* A call on a text of spaces only: nothing drawn, y returned unchanged.
C17_BlankCase ==
    /\ WrapReturned
    /\ call.text # <<>> /\ \A k \in DOMAIN call.text : call.text[k] = " "
    /\ DrawnLines = <<>>
    /\ result.value.y = call.y


-----------------------------------------------------------------------------
(* The callout boxes of one slide (SpecLayout).                             *)

DocCallout(j) == WithRole(DemoPage.shapes, <<"callout", j>>)[1]

PvCalloutBox(j) == WithRole(DemoPreview.prims, <<"callout", j>>)[1]

\* The callout boxes of the document page from top to bottom, none
\* overlapping the next.
DocCalloutsStacked ==
    \A j \in DOMAIN DemoCallouts :
        (j + 1 \in DOMAIN DemoCallouts) =>
            /\ DocCallout(j).top < DocCallout(j + 1).top
            /\ DocCallout(j).top + DocCallout(j).height <= DocCallout(j + 1).top

\* The same of the preview.
PvCalloutsStacked ==
    \A j \in DOMAIN DemoCallouts :
        (j + 1 \in DOMAIN DemoCallouts) =>
            /\ PvCalloutBox(j).y0 < PvCalloutBox(j + 1).y0
            /\ PvCalloutBox(j).y1 <= PvCalloutBox(j + 1).y0

\* C18: for a content descriptor with two or more callouts, in both output
\* paths the callout boxes are placed in list order at strictly increasing
\* vertical positions and no two callout boxes of the slide overlap.
C18_CalloutsStacked ==
    (LayoutDone /\ DemoIsContent /\ Len(DemoCallouts) >= 2) =>
        (DocCalloutsStacked /\ PvCalloutsStacked)

\* What does hold: the preview half, and in the document one box and one
\* text box per callout, in list order, all at the same position.
C18_CalloutsAsBuilt ==
    (LayoutDone /\ DemoIsContent /\ Len(DemoCallouts) >= 2) =>
        /\ PvCalloutsStacked
        /\ \A j \in DOMAIN DemoCallouts :
              /\ Len(WithRole(DemoPage.shapes, <<"callout", j>>)) = 1
              /\ DocCallout(j).top = DocCallout(1).top
              /\ DocCallout(j).left = DocCallout(1).left

\* A finished run on a slide of two callouts, stacked in the preview.
C18_Case ==
    /\ LayoutDone /\ DemoIsContent /\ Len(DemoCallouts) >= 2
    /\ PvCalloutBox(1).y1 < PvCalloutBox(2).y0


-----------------------------------------------------------------------------
(* The image panel and the content beside it (SpecLayout).                  *)

\* The generated descriptor without its images entry, and its outputs.
DemoNoImages == [k \in DOMAIN Demo \ {"images"} |-> Demo[k]]

DocTitleBox(page) == WithRole(page.shapes, <<"title">>)[1]

PvAccent(img) == WithRole(img.prims, <<"accent">>)[1]

DocPanelRect == WithRole(DemoPage.shapes, <<"panel">>)[1]

PvPanelRect == WithRole(DemoPreview.prims, <<"panel">>)[1]

\* The shapes of the document page that hold the title, a bullet or a
\* callout, and the lines of the preview that draw the title or a bullet.
DocContentBoxes ==
    {t.prim : t \in {u \in Range(DemoPage.shapes) :
                        u.role[1] \in {"title", "bullet", "callout", "callout_text"}}}

PvContentLines ==
    {t.prim : t \in {u \in Range(DemoPreview.prims) : u.role[1] \in {"title", "bullet"}}}

PvCalloutBoxes ==
    {t.prim : t \in {u \in Range(DemoPreview.prims) :
                        u.role[1] \in {"callout", "callout_edge"}}}

-----------------------------------------------------------------------------
(* C20: dot markers of the bullets.                                        *)

\* The shapes of the demo page, other than the text box of bullet i, that lie
\* in the row of bullet i and start left of its text: whatever the document
\* draws in front of the bullet.
DocMarkers(i) ==
    LET box == DocBox(i)
        sel == SelectSeq(DemoPage.shapes,
                         LAMBDA t : /\ t.role # <<"bullet", i>>
                                    /\ t.prim.top < box.top + box.height
                                    /\ t.prim.top + t.prim.height > box.top
                                    /\ t.prim.left < box.left)
    IN  [k \in DOMAIN sel |-> sel[k].prim]

\* The preview draws one ellipse just left of the first line of every non-sub
\* bullet, inside that line's height, and none for a sub-bullet.
PvDotsOnNonSub ==
    \A i \in DOMAIN DemoBullets :
        IF IsSub(DemoBullets[i])
        THEN PvDots(i) = <<>>
        ELSE /\ Len(PvDots(i)) = 1
             /\ PvDots(i)[1].op = "ellipse"
             /\ PvDots(i)[1].x1 < PvBulletX(i)
             /\ PvLines(i) # <<>> =>
                   /\ PvLines(i)[1].y <= PvDots(i)[1].y0
                   /\ PvDots(i)[1].y1 <= PvLines(i)[1].y + 36

\* The document draws one marker in front of every non-sub bullet and none in
\* front of a sub-bullet.
DocDotsOnNonSub ==
    \A i \in DOMAIN DemoBullets :
        IF IsSub(DemoBullets[i]) THEN DocMarkers(i) = <<>> ELSE Len(DocMarkers(i)) = 1

\* C20: on every content slide, in both output paths, each non-sub bullet is
\* prefixed with a drawn dot marker and no sub-bullet gets one.
C20_DotOnNonSubBullets ==
    (LayoutDone /\ DemoIsContent) => (PvDotsOnNonSub /\ DocDotsOnNonSub)

\* What does hold: the preview half, and in the document nothing is drawn in
\* front of any bullet; a bullet is one text box holding the descriptor's
\* text, so the only mark is the "•" a sub-bullet's own text starts with.
C20_DotsAsBuilt ==
    (LayoutDone /\ DemoIsContent) =>
        /\ PvDotsOnNonSub
        /\ \A i \in DOMAIN DemoBullets :
              /\ DocMarkers(i) = <<>>
              /\ Len(WithRole(DemoPage.shapes, <<"bullet", i>>)) = 1
              /\ DocBox(i).text = DemoBullets[i]
              /\ StartsWith(DocBox(i).text, BULLET) <=> IsSub(DemoBullets[i])

\* A finished run on a slide with a non-sub bullet and a sub-bullet: the
\* preview holds a dot for the first and none for the second.
C20_Case ==
    /\ LayoutDone /\ DemoIsContent
    /\ \E i, k \in DOMAIN DemoBullets :
          /\ ~IsSub(DemoBullets[i]) /\ IsSub(DemoBullets[k])
          /\ Len(PvDots(i)) = 1 /\ PvDots(k) = <<>>
          /\ Len(WithRole(DemoPage.shapes, <<"bullet", i>>)) = 1

-----------------------------------------------------------------------------
(* C21: on the pages of the static list the content stays between the     *)
(* title strip and the footer.                                             *)

\* The pages built so far, and the pages of the saved document.
BuiltPages == {prs[k] : k \in DOMAIN prs}
                 \cup (IF OUT_PPTX \in DOMAIN files
                       THEN {files[OUT_PPTX][k] : k \in DOMAIN files[OUT_PPTX]}
                       ELSE {})

IsContentPage(page) == WithRole(page.shapes, <<"title_strip">>) # <<>>

\* The bullet boxes, callout rectangles and callout text boxes of a page.
ContentBoxes(page) ==
    OfKind(page.shapes, "bullet") \o OfKind(page.shapes, "callout")
        \o OfKind(page.shapes, "callout_text")

\* C21: for every descriptor of the static list of slides/generate_slides.py,
\* on its document page every bullet box and every callout box starts below
\* the title strip (1.5 in) and ends above the top of the footer box (slide
\* height minus 0.45 in).
C21_ContentBetweenStripAndFooter ==
    \A page \in BuiltPages :
        IsContentPage(page) =>
            LET strip == WithRole(page.shapes, <<"title_strip">>)[1]
                footer == WithRole(page.shapes, <<"footer">>)[1]
                boxes == ContentBoxes(page)
            IN  /\ strip.top = 0 /\ strip.height = Inches(1500)
                /\ footer.top = SLIDE_H - Inches(450)
                /\ \A k \in DOMAIN boxes :
                      /\ boxes[k].top >= strip.top + strip.height
                      /\ boxes[k].top + boxes[k].height <= footer.top

\* The document of the static list was saved: sixteen pages, one for each
\* descriptor with all its bullets and callouts, among them the seven
\* bullets of the last slide and a slide with a callout.
C21_Witness ==
    /\ SLIDES = StaticSLIDES
    /\ OUT_PPTX \in DOMAIN files
    /\ Len(files[OUT_PPTX]) = Len(StaticSLIDES)
    /\ \A k \in DOMAIN StaticSLIDES :
          LET page == files[OUT_PPTX][k]
          IN  /\ Len(OfKind(page.shapes, "bullet"))
                    = Len(Get(StaticSLIDES[k], "bullets", <<>>))
              /\ Len(OfKind(page.shapes, "callout"))
                    = Len(Get(StaticSLIDES[k], "callouts", <<>>))
    /\ \E k \in DOMAIN StaticSLIDES :
          Len(OfKind(files[OUT_PPTX][k].shapes, "bullet")) = 7
    /\ \E k \in DOMAIN StaticSLIDES :
          /\ Len(OfKind(files[OUT_PPTX][k].shapes, "callout")) = 1
          /\ Len(OfKind(files[OUT_PPTX][k].shapes, "bullet")) = 4

-----------------------------------------------------------------------------
(* C22: the id lookup and the preview loop of main on the static list.     *)

\* The lines printed by the preview loop, in the order printed.
PreviewLog ==
    SelectSeq(stdout, LAMBDA l : l[1] \in {"[preview] Saved", "[preview] Unknown slide id"})

\* The id a line of the preview loop is about.
LoggedId(l) ==
    IF l[1] = "[preview] Unknown slide id" THEN l[2]
    ELSE CHOOSE id \in Range(SortedIds) : PreviewPath(id) = l[2]

\* The lines of the preview loop that report the saving of path.
SavedTo(path) == {k \in DOMAIN stdout : stdout[k] = <<"[preview] Saved", path>>}

\* The ids of the list are pairwise distinct and by_id has one entry per
\* descriptor, the descriptor itself.
IdsDistinct ==
    /\ \A i, j \in DOMAIN SLIDES : SLIDES[i].id = SLIDES[j].id => i = j
    /\ Cardinality(KnownIds) = Len(SLIDES)
    /\ \A k \in DOMAIN SLIDES : by_id(SLIDES[k].id) = SLIDES[k]

\* C22: the ids of the static list are pairwise distinct, so the id lookup
\* built in main has one entry per descriptor; for any list of requested ids
\* (with duplicates, in any order) the preview loop writes exactly one file
\* preview_<id>.png per distinct requested id that is known, processing ids
\* in sorted order, and with an empty requested list it writes no preview.
C22_OnePreviewPerKnownId ==
    /\ IdsDistinct
    /\ (InPreviewLoop /\ ~args.preview_slides.is_none) =>
          LET requested == Range(args.preview_slides.list)
              all == Sorted(requested)
              gone == SubSeq(all, 1, Len(all) - Len(todo))
          IN  /\ [k \in DOMAIN PreviewLog |-> LoggedId(PreviewLog[k])] = gone
              /\ PreviewFiles = {PreviewPath(id) : id \in Range(gone) \cap KnownIds}
              /\ \A id \in Range(gone) \cap KnownIds :
                    /\ Cardinality(SavedTo(PreviewPath(id))) = 1
                    /\ files[PreviewPath(id)] = render_preview(by_id(id))
              /\ \A k \in DOMAIN all : k < Len(all) =>
                    \E a, b \in DOMAIN SortedIds :
                        a < b /\ SortedIds[a] = all[k] /\ SortedIds[b] = all[k + 1]
              /\ pc = "done" =>
                    /\ Range(gone) = requested
                    /\ Cardinality(PreviewFiles) = Cardinality(requested \cap KnownIds)
              /\ args.preview_slides.list = <<>> =>
                    PreviewFiles = {} /\ PreviewLog = <<>>

\* A finished run asked for title and then agenda: agenda was processed
\* first, and each has its file.
C22_Witness ==
    /\ pc = "done" /\ ~args.no_previews /\ SLIDES = StaticSLIDES
    /\ ~args.preview_slides.is_none
    /\ args.preview_slides.list = <<"title", "agenda">>
    /\ PreviewLog = << <<"[preview] Saved", PreviewPath("agenda")>>,
                       <<"[preview] Saved", PreviewPath("title")>> >>
    /\ PreviewFiles = {PreviewPath("agenda"), PreviewPath("title")}

\* A finished run asked for agenda twice: one file, written once.
C22_DuplicateCase ==
    /\ pc = "done" /\ ~args.no_previews
    /\ ~args.preview_slides.is_none
    /\ args.preview_slides.list = <<"agenda", "agenda">>
    /\ PreviewFiles = {PreviewPath("agenda")}
    /\ Cardinality(SavedTo(PreviewPath("agenda"))) = 1

\* A finished run given --preview-slides with no id: no preview at all.
C22_EmptyCase ==
    /\ pc = "done" /\ ~args.no_previews
    /\ ~args.preview_slides.is_none
    /\ args.preview_slides.list = <<>>
    /\ PreviewFiles = {}

=============================================================================
